---- MODULE Spec2Model ----
(***************************************************************************)
(* The investment simulation engine of pages/investment_simulation.py:     *)
(* simulate_investment, its day loop, the rebalance of the JPY and the USD *)
(* bucket, calculate_trading_cost and calculate_portfolio_value.           *)
(*                                                                         *)
(* Numbers.  The code computes in floating point.  The model computes the  *)
(* same expressions in exact rational arithmetic: every amount of money is *)
(* an integer count of 1/Scale of a currency unit (Scale = 10000, the      *)
(* resolution of the cost rate 0.0017), prices, share counts, percentages  *)
(* and FX rates are integers, and int(x) of a non-negative x is floor(x).  *)
(* Products that would leave the 32-bit range are split (MulDivScale,      *)
(* TargetShares, AffordableShares) without changing their value.           *)
(*                                                                         *)
(* Dates are day numbers; day 0 is a Monday, so weekday(d) = d % 7 as      *)
(* date.weekday() numbers it (0 = Monday ... 5 = Saturday, 6 = Sunday).    *)
(*                                                                         *)
(* A dict is a sequence of <<key, value>> pairs in insertion order, the    *)
(* order in which Python iterates it.                                      *)
(***************************************************************************)
EXTENDS Integers, Sequences, FiniteSets, TLC

VARIABLES
    pc,                   \* "start", "loop" or "done": position in simulate_investment
    cfg,                  \* the arguments of simulate_investment, and the feed of the run
    current_date,
    initial_exchange_rate,
    jpy_portfolio,
    usd_portfolio,
    jpy_cash,
    usd_cash,
    previous_total_value,
    trade_history,
    simulation_results,
    fx_misses,            \* number of days skipped so far for an unresolved FX rate
    market,               \* the price feed: the latest lookup result of every ticker
    votes,                \* the vote table: the ranked lists of every vote date so far
    day,                  \* the locals of the last completed loop iteration
    quotes,               \* what the run's price lookups returned, day by day: the
                          \* results that get_stock_price_cached has memoized
    price_cache,          \* the table price_cache: (stock_code, date) -> price, or None
    lru,                  \* the lru_cache of the two lookups: key -> result, or Absent
    saves,                \* the prices save_price_to_cache was called with, per key
    call,                 \* the last call of a function outside the day loop
    lot                   \* a share count of 1 stands for 10^lot shares

\* the state of a run of simulate_investment
run == <<pc, cfg, current_date, initial_exchange_rate, jpy_portfolio, usd_portfolio,
         jpy_cash, usd_cash, previous_total_value, trade_history, simulation_results,
         fx_misses, market, votes, day, quotes>>

\* the price cache and the calls made outside the day loop; the day loop draws
\* its lookups from the feed (PriceLookups, TodaysRates) and leaves them alone
aside == <<price_cache, lru, saves, call, lot>>

vars == <<run, aside>>

-----------------------------------------------------------------------------
(* Bounds of the model *)

\* last day number an end_date may take (day 9 is the Wednesday of the second week)
MaxEndDay == 9

\* number of weekdays whose FX rate may fail to resolve in one run
MaxFxMiss == 1

\* number of times save_price_to_cache may be called for one key
MaxSaves == 2

\* money is counted in 1/Scale of a currency unit
Scale == 100 * 100

None == 0 - 1

JpyTickers == {"7203", "9984"}
UsdTickers == {"AAPL"}
\* a code that begins with a digit and holds a letter
LetteredTickers == {"130A"}
Tickers == JpyTickers \cup UsdTickers \cup LetteredTickers

\* What a price lookup may return for a ticker.  7203 has every kind of
\* answer: no price, two ordinary prices and a glitch that lifts the total
\* value above the ceiling.
PricesOf(t) ==
    IF t = "7203" THEN {None, 1, 2, 200}
    ELSE IF t = "9984" THEN {None, 1}
    ELSE {1, 2}

AllPrices == UNION {PricesOf(t) : t \in Tickers}

\* The prices of the narrow feed, which the runs of three weeks are given:
\* every ticker always has a price.
NarrowPricesOf(t) == IF t = "7203" THEN {1, 2} ELSE {1}

\* The prices of the two-bucket feed: one ticker of each bucket moves.
LedgerPricesOf(t) == IF t \in {"7203", "AAPL"} THEN {1, 2} ELSE {1}

\* FX rates a lookup may return (besides None)
FxValues == {2}

\* a rate above the bound of calculate_portfolio_value, which the stray feed
\* returns beside the others
StrayRate == 1001

-----------------------------------------------------------------------------
(* Program constants *)

\* TRADING_COSTS, in 1/Scale: 0.001, 0.0005, 0.0002
commission_rate == 10
slippage_rate == 5
spread_rate == 2

\* calculate_portfolio_value: a price above 1,000,000 is invalid
MaxValidPrice == 1000000
\* calculate_portfolio_value: an FX rate above 1000 is invalid
MaxValidRate == 1000
\* calculate_portfolio_value: a position worth more than 10^13 is invalid
MaxValidValueExponent == 13
\* simulate_investment: sanity ceiling on the total value, times the initial capital
CeilingMultiple == 50

\* the characters of a stock code
Chars(stock_code) ==
    CASE stock_code = "7203" -> <<"7", "2", "0", "3">>
      [] stock_code = "9984" -> <<"9", "9", "8", "4">>
      [] stock_code = "130A" -> <<"1", "3", "0", "A">>
      [] stock_code = "AAPL" -> <<"A", "A", "P", "L">>

\* str.isdigit() of one character
IsDigit(char) == char \in {"0", "1", "2", "3", "4", "5", "6", "7", "8", "9"}

\* stock_code.isdigit(): every character is a digit
FirstCharIsDigit_AllDigits(stock_code) ==
    \A i \in DOMAIN Chars(stock_code) : IsDigit(Chars(stock_code)[i])

\* stock_code[0].isdigit()
FirstCharIsDigit(stock_code) == IsDigit(Chars(stock_code)[1])

-----------------------------------------------------------------------------
(* Python dicts and lists *)

Keys(d) == {d[i][1] : i \in DOMAIN d}

Has(d, k) == k \in Keys(d)

\* d.get(k, default)
Get(d, k, default) ==
    IF Has(d, k) THEN d[CHOOSE i \in DOMAIN d : d[i][1] = k][2] ELSE default

\* d[k] += v
Put_Added(d, k, v) ==
    IF Has(d, k)
    THEN [i \in DOMAIN d |-> IF d[i][1] = k THEN <<k, d[i][2] + v>> ELSE d[i]]
    ELSE Append(d, <<k, v>>)

\* d[k] = v: in place for a key already there, at the end for a new key
Put(d, k, v) ==
    IF Has(d, k)
    THEN [i \in DOMAIN d |-> IF d[i][1] = k THEN <<k, v>> ELSE d[i]]
    ELSE Append(d, <<k, v>>)

IsKey(pair, k) == pair[1] = k

\* the entry stays
Del_Kept(d, k) == d

\* del d[k]
Del(d, k) == SelectSeq(d, LAMBDA pair : ~IsKey(pair, k))

Range(s) == {s[i] : i \in DOMAIN s}

Weekday_FromSunday(d) == (d + 1) % 7

Weekday(d) == d % 7

-----------------------------------------------------------------------------
(* calculate_trading_cost and the arithmetic of the rebalance *)

total_cost_rate == commission_rate + slippage_rate + spread_rate

\* floor(v * n / Scale) for v >= 0
MulDivScale(v, n) == (v \div Scale) * n + ((v % Scale) * n) \div Scale

\* trade_value * total_cost_rate
calculate_trading_cost_Free(trade_value) == 0

calculate_trading_cost(trade_value) == MulDivScale(trade_value, total_cost_rate)

\* shares * price, as money
TradeValue(shares, price) == shares * price * Scale

\* int((target_value - calculate_trading_cost(target_value)) / price) with
\* target_value = investment_value * (ratio / 100.0)
TargetShares_NoCost(investment_value, ratio, price) ==
    (((investment_value \div 100) * ratio + ((investment_value % 100) * ratio) \div 100)
        \div Scale) \div price

TargetShares(investment_value, ratio, price) ==
    LET lo   == investment_value % 100
        q1   == (investment_value \div 100) * ratio + (lo * ratio) \div 100
        r1   == (lo * ratio) % 100
        keep == Scale - total_cost_rate
        t    == (r1 * keep) \div 100
        net  == (q1 \div Scale) * keep + ((q1 % Scale) * keep + t) \div Scale
    IN  (net \div Scale) \div price

\* int((cash * 0.99) / (price * (1 + commission_rate + slippage_rate + spread_rate)))
AffordableShares_None(cash, price) == 0

AffordableShares(cash, price) ==
    LET margin == (cash \div 100) * 99 + ((cash % 100) * 99) \div 100
    IN  (margin \div (Scale + total_cost_rate)) \div price

-----------------------------------------------------------------------------
(* calculate_portfolio_value *)

RECURSIVE Pow10(_)
Pow10(n) == IF n = 0 THEN 1 ELSE 10 * Pow10(n - 1)

\* The lot that brings the limit of 10^13 on the value of a position down to
\* 10^5 currency units, the largest power of ten that the integers of the
\* model hold in 1/Scale: valuations of very large holdings count shares in
\* lots of 10^LargeLot.
LargeLot == MaxValidValueExponent - 5

ExceedsMaxValue_Tenth(stock_value) ==
    lot >= LargeLot /\ stock_value > Pow10(MaxValidValueExponent - 1 - lot) * Scale

\* "stock_value > 10000000000000", for a stock_value of share counts in lots of
\* 10^lot.  With a smaller lot than LargeLot the limit is above 2^31 and no
\* number of the model exceeds it.
ExceedsMaxValue(stock_value) ==
    lot >= LargeLot /\ stock_value > Pow10(MaxValidValueExponent - lot) * Scale

\* a valuation that also skips a non-JPY position when no exchange_rate is given
PositionValue_NeedsRate(stock_code, shares, prices, exchange_rate) ==
    IF prices[stock_code] = None THEN 0
    ELSE IF prices[stock_code] <= 0 \/ prices[stock_code] > MaxValidPrice THEN 0
    ELSE IF FirstCharIsDigit(stock_code) THEN TradeValue(shares, prices[stock_code])
    ELSE IF exchange_rate = None THEN 0
    ELSE IF exchange_rate <= 0 \/ exchange_rate > MaxValidRate THEN 0
    ELSE TradeValue(shares, prices[stock_code]) * exchange_rate

\* The value of one position, 0 when the code skips it.  prices maps a ticker
\* to its price or to None (the ticker is not in current_prices); the result is
\* money in the currency of the price, times exchange_rate for a non-JPY
\* ticker when an exchange_rate is given.
PositionValue(stock_code, shares, prices, exchange_rate) ==
    LET price == prices[stock_code]
        converted == ~FirstCharIsDigit(stock_code) /\ exchange_rate # None
        stock_value == IF converted THEN TradeValue(shares, price) * exchange_rate
                       ELSE TradeValue(shares, price)
    IN  IF price = None THEN 0
        ELSE IF price <= 0 \/ price > MaxValidPrice THEN 0
        ELSE IF converted /\ (exchange_rate <= 0 \/ exchange_rate > MaxValidRate) THEN 0
        ELSE IF ExceedsMaxValue(stock_value) THEN 0
        ELSE stock_value

RECURSIVE SumValues(_, _, _)
SumValues(portfolio, prices, exchange_rate) ==
    IF portfolio = <<>> THEN 0
    ELSE PositionValue(Head(portfolio)[1], Head(portfolio)[2], prices, exchange_rate)
         + SumValues(Tail(portfolio), prices, exchange_rate)

calculate_portfolio_value(portfolio, current_prices, exchange_rate) ==
    SumValues(portfolio, current_prices, exchange_rate)

-----------------------------------------------------------------------------
(* One bucket of the rebalance of simulate_investment.                      *)
(* The code has the JPY bucket and the USD bucket written out one after the *)
(* other; b carries what differs between the two:                           *)
(*   currency, portfolio, cash, stocks (the ranked vote list),              *)
(*   allocation_ratios, prices (today's lookups), trade_date, yesterday,    *)
(*   other_empty        "not usd_portfolio" / "not jpy_portfolio"           *)
(*   initial_investment initial_jpy / initial_usd / initial_exchange_rate   *)
(*   other_value        the other bucket's share of the total, in JPY       *)
(*   rate               1 / exchange_rate: JPY per unit of the currency     *)
(*   exchange_rate      None / exchange_rate: the field of a trade record   *)
(*   ceiling            initial_total_value * 50                            *)
(***************************************************************************)

\* "stock_code in current_prices"
Known_Always(prices, stock_code) == TRUE

Known(prices, stock_code) == prices[stock_code] # None

\* "total_trading_cost += sell_cost_usd * exchange_rate": a cost enters the
\* day's total in JPY; rate is 1 in the JPY bucket
InJpy_Unconverted(cost, rate) == cost

InJpy(cost, rate) == cost * rate

\* what an exit sale adds to the cash: "sell_value - sell_cost"
ExitProceeds_Gross(sell_value, sell_cost) == sell_value

ExitProceeds(sell_value, sell_cost) == sell_value - sell_cost

\* "if total_cost <= jpy_cash", the test before every purchase
CanAfford_Always(total_cost, cash) == TRUE

CanAfford(total_cost, cash) == total_cost <= cash

\* The 'action' of a trade record.  The code writes the Japanese words for
\* sale and purchase; the model writes them in ASCII.
SELL == "SELL"

BUY == "BUY"

TradeRecord_VotedToday(b, stock_code, action, shares, price) ==
    [date |-> b.trade_date, vote_date |-> b.trade_date, stock_code |-> stock_code,
     action |-> action, shares |-> shares, price |-> price,
     value |-> TradeValue(shares, price), currency |-> b.currency,
     exchange_rate |-> b.exchange_rate]

TradeRecord(b, stock_code, action, shares, price) ==
    [date |-> b.trade_date, vote_date |-> b.yesterday, stock_code |-> stock_code,
     action |-> action, shares |-> shares, price |-> price,
     value |-> TradeValue(shares, price), currency |-> b.currency,
     exchange_rate |-> b.exchange_rate]

\* every held ticker is sold whole, in the vote list or not
RECURSIVE ExitPass_SellAll(_, _, _)
ExitPass_SellAll(b, todo, acc) ==
    IF todo = <<>> THEN acc
    ELSE
        LET stock_code     == Head(todo)[1]
            current_shares == Head(todo)[2]
            sell_price     == b.prices[stock_code]
            sell_value     == TradeValue(current_shares, sell_price)
            sell_cost      == calculate_trading_cost(sell_value)
        IN  IF Known(b.prices, stock_code)
            THEN ExitPass_SellAll(b, Tail(todo),
                    [temp            |-> Del(acc.temp, stock_code),
                     cash_from_sales |-> acc.cash_from_sales
                                         + ExitProceeds(sell_value, sell_cost),
                     cost            |-> acc.cost + InJpy(sell_cost, b.rate),
                     trades          |-> Append(acc.trades,
                         TradeRecord(b, stock_code, SELL, current_shares, sell_price))])
            ELSE ExitPass_SellAll(b, Tail(todo), acc)

\* 1. every held ticker that is not in the vote list is sold whole
RECURSIVE ExitPass(_, _, _)
ExitPass(b, todo, acc) ==
    IF todo = <<>> THEN acc
    ELSE
        LET stock_code     == Head(todo)[1]
            current_shares == Head(todo)[2]
            sell_price     == b.prices[stock_code]
            sell_value     == TradeValue(current_shares, sell_price)
            sell_cost      == calculate_trading_cost(sell_value)
        IN  IF stock_code \notin Range(b.stocks) /\ Known(b.prices, stock_code)
            THEN ExitPass(b, Tail(todo),
                    [temp            |-> Del(acc.temp, stock_code),
                     cash_from_sales |-> acc.cash_from_sales
                                         + ExitProceeds(sell_value, sell_cost),
                     cost            |-> acc.cost + InJpy(sell_cost, b.rate),
                     trades          |-> Append(acc.trades,
                         TradeRecord(b, stock_code, SELL, current_shares, sell_price))])
            ELSE ExitPass(b, Tail(todo), acc)

\* the target portfolio: rank i gets investment_value * allocation_ratios[i] / 100
RECURSIVE TargetPortfolio(_, _, _, _)
TargetPortfolio(b, investment_value, i, target) ==
    IF i > Len(b.stocks) THEN target
    ELSE
        LET stock_code == b.stocks[i]
            price      == b.prices[stock_code]
            shares     == TargetShares(investment_value, b.allocation_ratios[i], price)
        IN  IF i <= Len(b.allocation_ratios) /\ price # None /\ price > 0 /\ shares > 0
            THEN TargetPortfolio(b, investment_value, i + 1, Put(target, stock_code, shares))
            ELSE TargetPortfolio(b, investment_value, i + 1, target)

\* the shares of one holding a trim would sell: 0 when none, or no price
TrimShares(b, target, stock_code, current_shares) ==
    IF Get(target, stock_code, 0) < current_shares /\ Known(b.prices, stock_code)
    THEN current_shares - Get(target, stock_code, 0)
    ELSE 0

\* additional_cash_from_sales: what the trims towards `target` would bring in
RECURSIVE AdditionalCash(_, _, _)
AdditionalCash(b, target, todo) ==
    IF todo = <<>> THEN 0
    ELSE
        LET stock_code == Head(todo)[1]
            n          == TrimShares(b, target, stock_code, Head(todo)[2])
            sell_value == TradeValue(n, b.prices[stock_code])
        IN  sell_value - calculate_trading_cost(sell_value)
            + AdditionalCash(b, target, Tail(todo))

\* the value of the shares the trims towards `target` would sell
RECURSIVE TrimmedValue(_, _, _)
TrimmedValue(b, target, todo) ==
    IF todo = <<>> THEN 0
    ELSE
        LET stock_code == Head(todo)[1]
            n          == TrimShares(b, target, stock_code, Head(todo)[2])
        IN  TradeValue(n, b.prices[stock_code]) + TrimmedValue(b, target, Tail(todo))

\* 3. holdings above their target are sold down to it
RECURSIVE TrimPass(_, _, _, _)
TrimPass(b, target, todo, acc) ==
    IF todo = <<>> THEN acc
    ELSE
        LET stock_code     == Head(todo)[1]
            current_shares == Head(todo)[2]
            target_shares  == Get(target, stock_code, 0)
            shares_to_sell == current_shares - target_shares
            sell_price     == b.prices[stock_code]
            sell_cost      == calculate_trading_cost(TradeValue(shares_to_sell, sell_price))
        IN  IF target_shares < current_shares /\ Known(b.prices, stock_code)
            THEN TrimPass(b, target, Tail(todo),
                    [temp   |-> Put(acc.temp, stock_code, target_shares),
                     cost   |-> acc.cost + InJpy(sell_cost, b.rate),
                     trades |-> Append(acc.trades,
                         TradeRecord(b, stock_code, SELL, shares_to_sell, sell_price))])
            ELSE TrimPass(b, target, Tail(todo), acc)

\* 4. holdings below their target are bought up to it, as far as the cash goes
RECURSIVE BuyPass(_, _, _)
BuyPass(b, todo, acc) ==
    IF todo = <<>> THEN acc
    ELSE
        LET stock_code       == Head(todo)[1]
            target_shares    == Head(todo)[2]
            current_shares   == Get(acc.temp, stock_code, 0)
            price            == b.prices[stock_code]
            shares_to_buy    == target_shares - current_shares
            buy_value        == TradeValue(shares_to_buy, price)
            buy_cost         == calculate_trading_cost(buy_value)
            total_cost       == buy_value + buy_cost
            available_shares == AffordableShares(acc.cash, price)
            part_value       == TradeValue(available_shares, price)
            part_cost        == calculate_trading_cost(part_value)
            part_total       == part_value + part_cost
        IN  IF ~(target_shares > current_shares /\ price # None /\ price > 0)
            THEN BuyPass(b, Tail(todo), acc)
            ELSE IF CanAfford(total_cost, acc.cash)
            THEN BuyPass(b, Tail(todo),
                    [temp   |-> Put(acc.temp, stock_code, target_shares),
                     cash   |-> acc.cash - total_cost,
                     cost   |-> acc.cost + InJpy(buy_cost, b.rate),
                     trades |-> Append(acc.trades,
                         TradeRecord(b, stock_code, BUY, shares_to_buy, price))])
            ELSE IF available_shares > 0 /\ CanAfford(part_total, acc.cash)
            THEN BuyPass(b, Tail(todo),
                    [temp   |-> Put(acc.temp, stock_code, current_shares + available_shares),
                     cash   |-> acc.cash - part_total,
                     cost   |-> acc.cost + InJpy(part_cost, b.rate),
                     trades |-> Append(acc.trades,
                         TradeRecord(b, stock_code, BUY, available_shares, price))])
            ELSE BuyPass(b, Tail(todo), acc)

\* "if not temp_jpy_portfolio and not usd_portfolio": the branch the code
\* comments as the first trade
FirstTrade(b, temp) == temp = <<>> /\ b.other_empty

\* the total the code compares with the ceiling: this bucket's positions and
\* cash in JPY plus the other bucket's share
TotalValue(b, portfolio_value, cash) == (portfolio_value + cash) * b.rate + b.other_value

\* the investment value of a bucket: the initial investment on the first-trade
\* branch and above the ceiling, else positions plus cash
InvestmentValue_NoCeiling(b, temp, portfolio_value, cash) ==
    IF FirstTrade(b, temp) THEN b.initial_investment ELSE portfolio_value + cash

InvestmentValue(b, temp, portfolio_value, cash) ==
    IF FirstTrade(b, temp) THEN b.initial_investment
    ELSE IF TotalValue(b, portfolio_value, cash) > b.ceiling THEN b.initial_investment
    ELSE portfolio_value + cash

\* The whole bucket.  The result holds the new portfolio and cash, the trade
\* records in the order they are appended, the trading cost in JPY, and the
\* locals of the code that the properties below speak about.
RebalanceBucket(b) ==
    LET exit == ExitPass(b, b.portfolio,
                    [temp |-> b.portfolio, cash_from_sales |-> 0, cost |-> 0, trades |-> <<>>])
        cash_after_exit      == b.cash + exit.cash_from_sales
        temp_portfolio_value == calculate_portfolio_value(exit.temp, b.prices, None)
        temp_investment_value ==
            InvestmentValue(b, exit.temp, temp_portfolio_value, cash_after_exit)
        temp_target          == TargetPortfolio(b, temp_investment_value, 1, <<>>)
        additional_cash_from_sales == AdditionalCash(b, temp_target, exit.temp)
        final_cash           == cash_after_exit + additional_cash_from_sales
        final_portfolio_value ==
            temp_portfolio_value - TrimmedValue(b, temp_target, exit.temp)
        investment_value     ==
            InvestmentValue(b, exit.temp, final_portfolio_value, final_cash)
        target               == TargetPortfolio(b, investment_value, 1, <<>>)
        trim == TrimPass(b, target, exit.temp,
                    [temp |-> exit.temp, cost |-> exit.cost, trades |-> exit.trades])
        buy  == BuyPass(b, target,
                    [temp |-> trim.temp, cash |-> final_cash, cost |-> trim.cost,
                     trades |-> trim.trades])
    IN  [portfolio |-> buy.temp, cash |-> buy.cash, cost |-> buy.cost, trades |-> buy.trades,
         bucket |-> b, cash_after_sells |-> final_cash,
         temp_total_value |-> TotalValue(b, temp_portfolio_value, cash_after_exit),
         currency |-> b.currency, stocks |-> b.stocks, prices |-> b.prices,
         allocation_ratios |-> b.allocation_ratios,
         portfolio_before |-> b.portfolio, cash_before |-> b.cash,
         exit_trades |-> exit.trades, temp_portfolio |-> exit.temp,
         cash_after_exit |-> cash_after_exit,
         temp_portfolio_value |-> temp_portfolio_value,
         first_trade |-> FirstTrade(b, exit.temp),
         final_total_value |-> TotalValue(b, final_portfolio_value, final_cash),
         ceiling |-> b.ceiling, initial_investment |-> b.initial_investment,
         temp_target |-> temp_target, investment_value |-> investment_value,
         target |-> target, portfolio_after_trim |-> trim.temp]

-----------------------------------------------------------------------------
(* The inputs of a run and of a day *)

\* the 10 percentages of a schedule; the ranks past the second are 0 in every
\* schedule of the model, which has at most two tickers in a vote list
Schedule(r1, r2) == <<r1, r2, 0, 0, 0, 0, 0, 0, 0, 0>>

\* The JPY schedule sums to 110: the page only warns about a sum other than
\* 100 and runs the simulation with the percentages as entered.
Schedules == {Schedule(70, 40)}

\* initial_jpy and initial_usd, in JPY
Capitals == {100}

\* feed is no argument of simulate_investment: it says which vote table and
\* price feed the run meets, the wide one or the narrow one
Configs ==
    [start_date : {1}, end_date : {MaxEndDay}, feed : {"wide"},
     initial_jpy : Capitals, initial_usd : Capitals,
     jpy_allocation_ratios : Schedules, usd_allocation_ratios : {Schedule(100, 0)}]

\* get_exchange_rate: a rate, None, or a non-positive value from the cache
FxLookups == FxValues \cup {None, 0}

\* The ranked lists get_vote_results_for_date_separated may return over a set
\* of tickers: every ordering of every subset (the vote counts are not read).
RankedLists(tickers) ==
    {<<>>} \cup {<<t>> : t \in tickers}
           \cup {p \in tickers \X tickers : p[1] # p[2]}

\* the weekdays on which votes are held: Tuesday and Saturday
VoteWeekdays == {1, 5}

\* the vote dates up to the end of the longest run
VoteDates == {d \in 0..(MaxEndDay + 8) : Weekday(d) \in VoteWeekdays}

NoVotes == [jpy_stocks |-> <<>>, usd_stocks |-> <<>>]

\* the JPY lists of a Tuesday under the narrow feed
NarrowLists == {<<>>, <<"7203">>, <<"9984">>, <<"9984", "7203">>}

\* "for stock_code, vote_count in all_results: if stock_code[0].isdigit():
\* jpy_stocks.append(...) else: usd_stocks.append(...)"
Separated(all_results) ==
    [jpy_stocks |-> SelectSeq(all_results, FirstCharIsDigit),
     usd_stocks |-> LET Other(stock_code) == ~FirstCharIsDigit(stock_code)
                    IN  SelectSeq(all_results, Other)]

\* the tallies of a Tuesday under the mixed feed, by falling vote count
MixedResults ==
    {<<>>, <<"130A">>, <<"AAPL">>, <<"130A", "AAPL">>, <<"AAPL", "130A">>,
     <<"7203", "130A">>, <<"130A", "7203", "AAPL">>}

\* The vote table is filled as the dates pass: the lists of a vote date are
\* drawn in the loop iteration of that date, before any day reads them.  A
\* Saturday's vote always ranks one ticker.
VotesCastOn(d) ==
    IF Weekday(d) = 1 /\ cfg.feed = "narrow"
    THEN [jpy_stocks : NarrowLists, usd_stocks : {<<>>}]
    ELSE IF Weekday(d) = 1 /\ cfg.feed = "mixed"
    THEN {Separated(all_results) : all_results \in MixedResults}
    ELSE IF Weekday(d) = 1 /\ cfg.feed \in {"ledger", "stray"}
    THEN [jpy_stocks : {<<"7203">>, <<"9984">>, <<"9984", "7203">>}, usd_stocks : {<<>>, <<"AAPL">>}]
    ELSE IF Weekday(d) = 1
    THEN [jpy_stocks : RankedLists(JpyTickers), usd_stocks : RankedLists(UsdTickers)]
    ELSE [jpy_stocks : {<<"7203">>}, usd_stocks : {<<>>}]

CastVotes ==
    IF current_date \in VoteDates
    THEN \E cast \in VotesCastOn(current_date) :
            votes' = [votes EXCEPT ![current_date] = cast]
    ELSE votes' = votes

\* get_vote_results_for_date_separated(vote_date)
get_vote_results_for_date_separated(vote_date) ==
    IF vote_date \in VoteDates THEN votes[vote_date] ELSE NoVotes

\* what a price lookup may return for a ticker under the feed of the run
QuotesOf(t) ==
    IF cfg.feed = "narrow" THEN NarrowPricesOf(t)
    ELSE IF cfg.feed \in {"ledger", "stray"} THEN LedgerPricesOf(t)
    ELSE PricesOf(t)

\* Today's get_stock_price_cached lookups: a price or None for each ticker
\* that is looked up, None for the others.  The feed of the model quotes anew
\* on the day after a vote weekday and repeats its last answer on other days.
PriceLookups(looked_up, fresh) ==
    IF fresh
    THEN {f \in [Tickers -> AllPrices \cup {None}] :
            \A t \in Tickers : f[t] \in (IF t \in looked_up THEN QuotesOf(t) ELSE {None})}
    ELSE {[t \in Tickers |-> IF t \in looked_up THEN market[t] ELSE None]}

\* the weekday before d, "while yesterday.weekday() >= 5: yesterday -= 1"
RECURSIVE BackToWeekday(_)
BackToWeekday(d) == IF Weekday(d) >= 5 THEN BackToWeekday(d - 1) ELSE d

\* the last day that was simulated
Yesterday_LastSimulated(d) ==
    IF simulation_results = <<>> THEN BackToWeekday(d - 1)
    ELSE simulation_results[Len(simulation_results)].date

Yesterday(d) == BackToWeekday(d - 1)

\* "yesterday.weekday() in [1, 5]"
IsTradeDay_Thursday(d) == Weekday(Yesterday(d)) \in {2, 5}

IsTradeDay(d) == Weekday(Yesterday(d)) \in {1, 5}

\* the date stays as it is
Tomorrow_Stays(d) == d

\* "current_date += timedelta(days=1)"
Tomorrow(d) == d + 1

Money(amount) == amount * Scale

initial_total_value == Money(cfg.initial_jpy) + Money(cfg.initial_usd)

NoDay == [kind |-> "none"]

\* lru has no entry for a key (None is a result the lru_cache keeps)
Absent == 0 - 2

\* the keys of price_cache and of the lru_cache that the model follows: a JPY
\* ticker and the FX pair on one date
CacheKeys == {<<"7203", 1>>, <<"USDJPY=X", 1>>}

EmptyCache == [k \in CacheKeys |-> None]

EmptyLru == [k \in CacheKeys |-> Absent]

NoCall == [fn |-> "none"]

\* the state after the initialisation of simulate_investment, for a run whose
\* arguments are drawn from configs
InitFrom(configs, share_lot) ==
    /\ pc = "start"
    /\ cfg \in configs
    /\ current_date = cfg.start_date
    /\ initial_exchange_rate = None
    /\ jpy_portfolio = <<>>
    /\ usd_portfolio = <<>>
    /\ jpy_cash = Money(cfg.initial_jpy)
    /\ usd_cash = 0
    /\ previous_total_value = initial_total_value
    /\ trade_history = <<>>
    /\ simulation_results = <<>>
    /\ fx_misses = 0
    /\ market = [t \in Tickers |-> None]
    /\ votes = [d \in VoteDates |-> NoVotes]
    /\ day = NoDay
    /\ quotes = <<>>
    /\ price_cache = EmptyCache
    /\ lru = EmptyLru
    /\ saves = [k \in CacheKeys |-> <<>>]
    /\ call = NoCall
    /\ lot = share_lot

Init == InitFrom(Configs, 0)

\* The scenario of a first purchase with the whole capital on one ticker:
\* initial_jpy = 1,000,000, a rank-1 allocation of 100 and a price of 2,000.
\* The arithmetic of the engine is linear in the unit of money, and the
\* scenario is run with the price of the share as the unit: a capital of 500
\* units of 2,000 yen and a price of 1, which 7203 takes among its prices.
\* Share counts are unchanged and a cash balance of x units is 2000 * x yen.
ScenarioConfig ==
    [start_date |-> 1, end_date |-> MaxEndDay, feed |-> "wide",
     initial_jpy |-> 500, initial_usd |-> 0,
     jpy_allocation_ratios |-> Schedule(100, 0),
     usd_allocation_ratios |-> Schedule(100, 0)]

ScenarioInit == InitFrom({ScenarioConfig}, 0)

\* The form accepts an initial capital of 0 for both buckets (min_value=0).
PennilessConfig ==
    [start_date |-> 1, end_date |-> MaxEndDay, feed |-> "wide",
     initial_jpy |-> 0, initial_usd |-> 0,
     jpy_allocation_ratios |-> Schedule(70, 40),
     usd_allocation_ratios |-> Schedule(100, 0)]

AnyCapitalInit == InitFrom(Configs \cup {PennilessConfig}, 0)

\* A run of three weeks, with three rebalance days, under the narrow feed and
\* a schedule whose second rank has an allocation of 0.
ThreeWeekConfig ==
    [start_date |-> 1, end_date |-> MaxEndDay + 7, feed |-> "narrow",
     initial_jpy |-> 100, initial_usd |-> 100,
     jpy_allocation_ratios |-> Schedule(100, 0),
     usd_allocation_ratios |-> Schedule(100, 0)]

ThreeWeekInit == InitFrom({ThreeWeekConfig}, 0)

\* A run of three weeks in which both buckets trade, under the two-bucket
\* feed.
LedgerConfig == [ThreeWeekConfig EXCEPT !.feed = "ledger"]

LedgerInit == InitFrom({LedgerConfig}, 0)

\* A run of the two-bucket feed whose FX lookups may return a rate above 1000.
StrayRateConfig == [LedgerConfig EXCEPT !.feed = "stray", !.end_date = MaxEndDay]

StrayRateInit == InitFrom({StrayRateConfig}, 0)

\* A run of the narrow feed that ends with MaxEndDay.
LiveConfig == [ThreeWeekConfig EXCEPT !.end_date = MaxEndDay]

LiveInit == InitFrom({LiveConfig}, 0)

\* The runs of Configs under the mixed feed, whose tallies hold a code that
\* begins with a digit and holds a letter.
MixedInit == InitFrom({[c EXCEPT !.feed = "mixed"] : c \in Configs}, 0)

-----------------------------------------------------------------------------
(* simulate_investment *)

\* daily_pnl_rate, in percent, as the exact fraction 100 * num / den:
\* ((daily_total_value - previous_total_value) / previous_total_value) * 100
DailyPnlRate_SinceStart(daily_total_value) ==
    [num |-> daily_total_value - initial_total_value, den |-> initial_total_value]

DailyPnlRate(daily_total_value) ==
    IF previous_total_value > 0
    THEN [num |-> daily_total_value - previous_total_value, den |-> previous_total_value]
    ELSE [num |-> 0, den |-> 1]

\* simulation_results.append of a snapshot whose position maps are one dict
\* shared with the live portfolio and with every snapshot before it
RecordSnapshot_Shared(results, snapshot) ==
    Append([i \in DOMAIN results |->
               [results[i] EXCEPT !.jpy_portfolio = snapshot.jpy_portfolio,
                                  !.usd_portfolio = snapshot.usd_portfolio]],
           snapshot)

\* simulation_results.append({..., 'jpy_portfolio': jpy_portfolio.copy(), ...}):
\* the snapshot holds dicts of its own, which nothing else refers to
RecordSnapshot(results, snapshot) == Append(results, snapshot)

\* the end of a loop iteration: value both buckets at today's prices, append
\* the snapshot, thread the total and step to the next date
EndOfDay(kind, exchange_rate, prices, new_jpy_portfolio, new_usd_portfolio, new_jpy_cash, new_usd_cash, total_trading_cost, locals) ==
    \E is_trade_day \in {IsTradeDay(current_date)},
       daily_jpy_portfolio_value \in
            {calculate_portfolio_value(new_jpy_portfolio, prices, None)},
       daily_usd_portfolio_value \in
            {calculate_portfolio_value(new_usd_portfolio, prices, exchange_rate)} :
    LET daily_total_value ==
            daily_jpy_portfolio_value + new_jpy_cash + daily_usd_portfolio_value
                + new_usd_cash * exchange_rate
    IN  /\ jpy_portfolio' = new_jpy_portfolio
        /\ usd_portfolio' = new_usd_portfolio
        /\ jpy_cash' = new_jpy_cash
        /\ usd_cash' = new_usd_cash
        /\ simulation_results' = RecordSnapshot(simulation_results,
              [date |-> current_date,
               vote_date |-> IF is_trade_day THEN Yesterday(current_date) ELSE None,
               jpy_portfolio |-> new_jpy_portfolio,
               usd_portfolio |-> new_usd_portfolio,
               jpy_cash |-> new_jpy_cash,
               usd_cash |-> new_usd_cash,
               total_value |-> daily_total_value,
               exchange_rate |-> exchange_rate,
               jpy_portfolio_value |-> daily_jpy_portfolio_value,
               usd_portfolio_value |-> daily_usd_portfolio_value,
               trading_cost |-> IF is_trade_day THEN total_trading_cost ELSE 0,
               daily_pnl_rate |-> DailyPnlRate(daily_total_value),
               is_trade_day |-> is_trade_day])
        /\ previous_total_value' = daily_total_value
        /\ current_date' = Tomorrow(current_date)
        /\ market' = IF is_trade_day THEN prices ELSE market
        /\ quotes' = Append(quotes, [date |-> current_date, prices |-> prices])
        /\ day' = [kind |-> kind, date |-> current_date, exchange_rate |-> exchange_rate,
                   prices |-> prices, locals |-> locals]

\* get_exchange_rate(current_date): lru_cache answers the start date with the
\* rate the start of the run looked up
TodaysRates ==
    IF current_date = cfg.start_date THEN {initial_exchange_rate}
    ELSE IF cfg.feed = "stray" THEN FxLookups \cup {StrayRate}
    ELSE FxLookups

\* the start date's rate resolves: usd_cash = initial_usd / initial_exchange_rate
Start ==
    /\ pc = "start"
    /\ \E rate \in FxValues :
          /\ initial_exchange_rate' = rate
          /\ usd_cash' = Money(cfg.initial_usd) \div rate
    /\ pc' = "loop"
    /\ UNCHANGED <<aside, quotes, cfg, current_date, jpy_portfolio, usd_portfolio, jpy_cash,
                   previous_total_value, trade_history, simulation_results, fx_misses,
                   market, votes, day>>

\* the start date's rate is None or <= 0, and the run goes on all the same
StartFails_Proceeds ==
    /\ pc = "start"
    /\ \E rate \in {None, 0} : initial_exchange_rate' = rate
    /\ pc' = "loop"
    /\ UNCHANGED <<aside, quotes, cfg, current_date, jpy_portfolio, usd_portfolio, jpy_cash, usd_cash,
                   previous_total_value, trade_history, simulation_results, fx_misses,
                   market, votes, day>>

\* the start date's rate is None or <= 0: return [], []
StartFails ==
    /\ pc = "start"
    /\ \E rate \in {None, 0} : initial_exchange_rate' = rate
    /\ pc' = "done"
    /\ UNCHANGED <<aside, quotes, cfg, current_date, jpy_portfolio, usd_portfolio, jpy_cash, usd_cash,
                   previous_total_value, trade_history, simulation_results, fx_misses,
                   market, votes, day>>

FxUnresolved_NoneOnly(exchange_rate) == exchange_rate = None

\* "exchange_rate is None or exchange_rate <= 0"
FxUnresolved(exchange_rate) == exchange_rate = None \/ exchange_rate <= 0

\* "if current_date.weekday() >= 5: continue"
Weekend ==
    /\ pc = "loop"
    /\ current_date <= cfg.end_date
    /\ Weekday(current_date) >= 5
    /\ current_date' = Tomorrow(current_date)
    /\ day' = [kind |-> "weekend", date |-> current_date]
    /\ CastVotes
    /\ UNCHANGED <<aside, quotes, pc, cfg, initial_exchange_rate, jpy_portfolio, usd_portfolio, jpy_cash,
                   usd_cash, previous_total_value, trade_history, simulation_results,
                   fx_misses, market>>

\* "if exchange_rate is None or exchange_rate <= 0: continue"
FxSkip ==
    /\ pc = "loop"
    /\ current_date <= cfg.end_date
    /\ Weekday(current_date) < 5
    /\ fx_misses < MaxFxMiss
    /\ \E exchange_rate \in TodaysRates :
          /\ FxUnresolved(exchange_rate)
          /\ day' = [kind |-> "fxskip", date |-> current_date,
                     exchange_rate |-> exchange_rate]
    /\ current_date' = Tomorrow(current_date)
    /\ fx_misses' = fx_misses + 1
    /\ CastVotes
    /\ UNCHANGED <<aside, quotes, pc, cfg, initial_exchange_rate, jpy_portfolio, usd_portfolio, jpy_cash,
                   usd_cash, previous_total_value, trade_history, simulation_results,
                   market>>

\* the rebalance runs on every day after a vote weekday
RebalanceDue_EveryTradeDay == IsTradeDay(current_date)

\* "if is_trade_day: ... if jpy_stocks or usd_stocks:": the rebalance runs
RebalanceDue ==
    /\ IsTradeDay(current_date)
    /\ get_vote_results_for_date_separated(Yesterday(current_date)) # NoVotes

\* a weekday without rebalance: not the day after a vote weekday, or the vote
\* of yesterday ranked no ticker
Hold ==
    /\ pc = "loop"
    /\ current_date <= cfg.end_date
    /\ Weekday(current_date) < 5
    /\ ~RebalanceDue
    /\ CastVotes
    /\ \E exchange_rate \in TodaysRates,
          prices \in PriceLookups(Keys(jpy_portfolio) \cup Keys(usd_portfolio),
                                  IsTradeDay(current_date)) :
          /\ ~FxUnresolved(exchange_rate)
          /\ EndOfDay("hold", exchange_rate, prices, jpy_portfolio, usd_portfolio,
                      jpy_cash, usd_cash, 0, <<>>)
    /\ UNCHANGED <<aside, pc, cfg, initial_exchange_rate, trade_history, fx_misses>>

JpyBucket(exchange_rate, prices, jpy_stocks) ==
    [currency |-> "JPY", portfolio |-> jpy_portfolio, cash |-> jpy_cash,
     stocks |-> jpy_stocks, allocation_ratios |-> cfg.jpy_allocation_ratios,
     prices |-> prices, trade_date |-> current_date, yesterday |-> Yesterday(current_date),
     other_empty |-> usd_portfolio = <<>>,
     initial_investment |-> Money(cfg.initial_jpy),
     other_value |-> calculate_portfolio_value(usd_portfolio, prices, exchange_rate)
                        + usd_cash * exchange_rate,
     rate |-> 1, exchange_rate |-> None,
     ceiling |-> initial_total_value * CeilingMultiple]

\* The USD bucket runs after the JPY bucket: jpy is the JPY bucket's result.
\* Its total takes jpy_portfolio_value as computed before the JPY trades and
\* jpy_cash as it is after them.
UsdBucket(exchange_rate, prices, usd_stocks, jpy) ==
    [currency |-> "USD", portfolio |-> usd_portfolio, cash |-> usd_cash,
     stocks |-> usd_stocks, allocation_ratios |-> cfg.usd_allocation_ratios,
     prices |-> prices, trade_date |-> current_date, yesterday |-> Yesterday(current_date),
     other_empty |-> jpy.portfolio = <<>>,
     initial_investment |-> Money(cfg.initial_usd) \div initial_exchange_rate,
     other_value |-> calculate_portfolio_value(jpy_portfolio, prices, None) + jpy.cash,
     rate |-> exchange_rate, exchange_rate |-> exchange_rate,
     ceiling |-> initial_total_value * CeilingMultiple]

\* a rebalance day: the day after a vote weekday whose vote ranked a ticker
Rebalance ==
    /\ pc = "loop"
    /\ current_date <= cfg.end_date
    /\ Weekday(current_date) < 5
    /\ RebalanceDue
    /\ CastVotes
    /\ \E exchange_rate \in TodaysRates,
          jpy_stocks \in {get_vote_results_for_date_separated(Yesterday(current_date)).jpy_stocks},
          usd_stocks \in {get_vote_results_for_date_separated(Yesterday(current_date)).usd_stocks} :
          /\ ~FxUnresolved(exchange_rate)
          /\ \E prices \in PriceLookups(Keys(jpy_portfolio) \cup Keys(usd_portfolio)
                              \cup Range(jpy_stocks) \cup Range(usd_stocks), TRUE) :
             \E jpy \in {RebalanceBucket(JpyBucket(exchange_rate, prices, jpy_stocks))} :
             \E usd \in {RebalanceBucket(UsdBucket(exchange_rate, prices, usd_stocks, jpy))} :
                /\ trade_history' = trade_history \o jpy.trades \o usd.trades
                /\ EndOfDay("rebalance", exchange_rate, prices, jpy.portfolio,
                            usd.portfolio, jpy.cash, usd.cash, jpy.cost + usd.cost,
                            [jpy |-> jpy, usd |-> usd])
    /\ UNCHANGED <<aside, pc, cfg, initial_exchange_rate, fx_misses>>

\* "while current_date <= end_date" ends: return simulation_results, trade_history
Finish ==
    /\ pc = "loop"
    /\ current_date > cfg.end_date
    /\ pc' = "done"
    /\ UNCHANGED <<aside, quotes, cfg, current_date, initial_exchange_rate, jpy_portfolio, usd_portfolio,
                   jpy_cash, usd_cash, previous_total_value, trade_history,
                   simulation_results, fx_misses, market, votes, day>>

Next == Start \/ StartFails \/ Weekend \/ FxSkip \/ Hold \/ Rebalance \/ Finish

Spec == Init /\ [][Next]_vars

\* the runs of the scenario
ScenarioSpec == ScenarioInit /\ [][Next]_vars

\* the runs of three weeks
ThreeWeekSpec == ThreeWeekInit /\ [][Next]_vars

LedgerSpec == LedgerInit /\ [][Next]_vars

StrayRateSpec == StrayRateInit /\ [][Next]_vars

\* the loop is at a weekday of the range: FxSkip, Hold or Rebalance can run
AtWeekday == pc = "loop" /\ current_date <= cfg.end_date /\ Weekday(current_date) < 5

\* The program keeps running: a step that can be taken is taken.  The weak
\* fairness of the iteration of a weekday, FxSkip \/ Hold \/ Rebalance, is
\* written out with AtWeekday for its enabling condition.
Running ==
    /\ WF_vars(Start \/ StartFails)
    /\ WF_vars(Weekend)
    /\ WF_vars(Finish)
    /\ ([]<>(~AtWeekday) \/ []<><<current_date' # current_date>>_vars)

\* the runs of the narrow feed up to MaxEndDay in which the program keeps
\* running
LiveSpec == LiveInit /\ [][Next]_vars /\ Running

MixedSpec == MixedInit /\ [][Next]_vars

\* the runs with or without capital
AnyCapitalSpec == AnyCapitalInit /\ [][Next]_vars

-----------------------------------------------------------------------------
(* Calls of calculate_portfolio_value on holdings of any size *)

\* share counts, in lots of 10^LargeLot
ShareCounts == 1..3

\* position maps over a JPY and a USD ticker, in either order of insertion
Holdings ==
    {<<>>}
        \cup {<< <<t, n>> >> : t \in {"7203", "AAPL"}, n \in ShareCounts}
        \cup {<< <<"7203", n>>, <<"AAPL", m>> >> : n \in ShareCounts, m \in ShareCounts}
        \cup {<< <<"AAPL", m>>, <<"7203", n>> >> : n \in ShareCounts, m \in ShareCounts}

\* current_prices: no entry, a price of 0, a price far below the limit of
\* 10^13, a price that puts three lots above it, and a price above 1,000,000
ValuedPrices ==
    {[t \in Tickers |-> IF t = "7203" THEN p ELSE IF t = "AAPL" THEN q ELSE None] :
        p \in {None, 0, 5000, 50000, 2 * MaxValidPrice}, q \in {None, 1000}}

\* exchange_rate: not given, 0, a rate that puts three lots of AAPL above the
\* limit, and a rate above 1000
ValuedRates == {None, 0, 50, MaxValidRate + 1}

ValuationInit == InitFrom({PennilessConfig}, LargeLot)

\* a call calculate_portfolio_value(portfolio, current_prices, None, exchange_rate)
Valuate ==
    /\ \E portfolio \in Holdings, current_prices \in ValuedPrices,
          exchange_rate \in ValuedRates :
          call' = [fn |-> "calculate_portfolio_value", portfolio |-> portfolio,
                   current_prices |-> current_prices, exchange_rate |-> exchange_rate,
                   result |-> calculate_portfolio_value(portfolio, current_prices,
                                                        exchange_rate)]
    /\ UNCHANGED <<run, price_cache, lru, saves, lot>>

ValuationNext == Valuate

ValuationSpec == ValuationInit /\ [][ValuationNext]_vars

-----------------------------------------------------------------------------
(* The price cache: get_price_from_cache, save_price_to_cache and the two   *)
(* lookups get_stock_price_cached and get_exchange_rate, each behind an     *)
(* lru_cache.  A date is looked up for one stock code and for the FX pair.  *)
(* The table is shared: save_price_to_cache may be called by whoever holds  *)
(* the module, and the rows outlive the process and its lru_cache.          *)
(***************************************************************************)

StockKey == <<"7203", 1>>
FxKey == <<"USDJPY=X", 1>>

\* prices save_price_to_cache may be called with from outside the lookups
SavedPrices == {0, 100, 200}

\* what yfinance may answer for the stock: nothing (an empty frame, no date at
\* or before the target, an exception) or a closing price
FetchedPrices == {None, 0, 150, 2 * MaxValidPrice}

\* what yfinance may answer for the FX pair
FetchedRates == {None, 150}

\* price_cache has (stock_code, date) as its primary key: INSERT OR REPLACE
\* leaves one row for the key, the one just written
InsertOrReplace(table, key, price) == [table EXCEPT ![key] = price]

\* "SELECT price ... WHERE stock_code = ? AND date = ?": float(result[0]), or None
get_price_from_cache(key) == price_cache[key]

CacheInit == InitFrom({PennilessConfig}, 0)

\* a call save_price_to_cache(stock_code, date_str, price, currency) from
\* outside the lookups
Save ==
    \E key \in CacheKeys, price \in SavedPrices :
        /\ Len(saves[key]) < MaxSaves
        /\ price_cache' = InsertOrReplace(price_cache, key, price)
        /\ saves' = [saves EXCEPT ![key] = Append(@, price)]
        /\ call' = [fn |-> "save_price_to_cache", key |-> key, price |-> price]
        /\ UNCHANGED <<run, lru, lot>>

\* a call get_price_from_cache(stock_code, date_str)
ReadCache ==
    \E key \in CacheKeys :
        /\ call' = [fn |-> "get_price_from_cache", key |-> key,
                    result |-> get_price_from_cache(key)]
        /\ UNCHANGED <<run, price_cache, lru, saves, lot>>

\* the record of a lookup: what it returned, whether it went to the network
\* and whether it wrote to the table
Looked(fn, key, result, fetched, saved) ==
    [fn |-> fn, key |-> key, result |-> result, fetched |-> fetched, saved |-> saved]

\* a lookup answered by the lru_cache: the function body does not run
Memoized(fn, key) ==
    /\ lru[key] # Absent
    /\ call' = Looked(fn, key, lru[key], FALSE, FALSE)
    /\ UNCHANGED <<run, price_cache, lru, saves, lot>>

\* "cached_price = get_price_from_cache(...); if cached_price is not None:
\* return cached_price"
CacheHit(fn, key) ==
    /\ lru[key] = Absent
    /\ get_price_from_cache(key) # None
    /\ lru' = [lru EXCEPT ![key] = get_price_from_cache(key)]
    /\ call' = Looked(fn, key, get_price_from_cache(key), FALSE, FALSE)
    /\ UNCHANGED <<run, price_cache, saves, lot>>

\* the body after a miss of the table, with the answer of yfinance; valid
\* says whether the function lets the fetched value through
Fetch(fn, key, fetched, valid) ==
    /\ lru[key] = Absent
    /\ get_price_from_cache(key) = None
    /\ IF fetched # None /\ valid /\ Len(saves[key]) < MaxSaves
       THEN /\ price_cache' = InsertOrReplace(price_cache, key, fetched)
            /\ saves' = [saves EXCEPT ![key] = Append(@, fetched)]
            /\ lru' = [lru EXCEPT ![key] = fetched]
            /\ call' = Looked(fn, key, fetched, TRUE, TRUE)
       ELSE /\ fetched = None \/ ~valid
            /\ lru' = [lru EXCEPT ![key] = None]
            /\ call' = Looked(fn, key, None, TRUE, FALSE)
            /\ UNCHANGED <<price_cache, saves>>
    /\ UNCHANGED <<run, lot>>

\* "if price > 1000000 or price <= 0: return None"
ValidPrice(price) == ~(price > MaxValidPrice \/ price <= 0)

\* a call get_stock_price_cached(stock_code, target_date)
LookupPrice ==
    \/ Memoized("get_stock_price_cached", StockKey)
    \/ CacheHit("get_stock_price_cached", StockKey)
    \/ \E price \in FetchedPrices :
          Fetch("get_stock_price_cached", StockKey, price, price # None /\ ValidPrice(price))

\* a call get_exchange_rate(target_date): the fetched rate is saved as it is
LookupRate ==
    \/ Memoized("get_exchange_rate", FxKey)
    \/ CacheHit("get_exchange_rate", FxKey)
    \/ \E rate \in FetchedRates : Fetch("get_exchange_rate", FxKey, rate, TRUE)

CacheNext == Save \/ ReadCache \/ LookupPrice \/ LookupRate

CacheSpec == CacheInit /\ [][CacheNext]_vars

-----------------------------------------------------------------------------
(* The profit and loss figures that show and create_calendar_heatmap       *)
(* compute from trade_history for each snapshot.  Both functions hold the   *)
(* same loops; amounts are money in JPY.                                    *)
(***************************************************************************)

NoTrade == [action |-> "none"]

\* "if trade['exchange_rate']": neither None nor 0
Truthy(x) == x # None /\ x # 0

\* the scan "for buy in trade_history" of the records from i on, keeping the
\* first BUY of the latest date before the sale
FindBuy_Earliest(ledger, i, trade, buy_trade) ==
    LET buys == {j \in i..Len(ledger) :
                    /\ ledger[j].stock_code = trade.stock_code
                    /\ ledger[j].action = BUY
                    /\ ledger[j].date < trade.date}
    IN  IF buys = {} THEN buy_trade
        ELSE ledger[CHOOSE j \in buys : \A k \in buys : j <= k]

RECURSIVE FindBuy(_, _, _, _)
FindBuy(ledger, i, trade, buy_trade) ==
    IF i > Len(ledger) THEN buy_trade
    ELSE LET buy == ledger[i] IN
         IF /\ buy.stock_code = trade.stock_code
            /\ buy.action = BUY
            /\ buy.date < trade.date
            /\ (buy_trade = NoTrade \/ buy.date > buy_trade.date)
         THEN FindBuy(ledger, i + 1, trade, buy)
         ELSE FindBuy(ledger, i + 1, trade, buy_trade)

\* pnl_amount of one sale, 0 when no BUY is found
RealizedPnl(ledger, trade) ==
    LET buy_trade == FindBuy(ledger, 1, trade, NoTrade) IN
    IF buy_trade = NoTrade THEN 0
    ELSE IF trade.currency = "USD" /\ Truthy(trade.exchange_rate)
         THEN Money((trade.price - buy_trade.price) * trade.shares) * trade.exchange_rate
         ELSE Money((trade.price - buy_trade.price) * trade.shares)

\* cumulative_realized_pnl of the snapshot dated result_date
RECURSIVE CumulativeRealizedPnl(_, _, _)
CumulativeRealizedPnl(ledger, i, result_date) ==
    IF i > Len(ledger) THEN 0
    ELSE (IF ledger[i].date <= result_date /\ ledger[i].action = SELL
          THEN RealizedPnl(ledger, ledger[i]) ELSE 0)
         + CumulativeRealizedPnl(ledger, i + 1, result_date)

\* The calendar: the runs begin in the last days of a month, and the day
\* FirstOfNextMonth is the first day of the next one.
FirstOfNextMonth == 10

\* "result['date'].year == year and result['date'].month == month"
MonthOf(date) == IF date < FirstOfNextMonth THEN 1 ELSE 2

\* the loop over the snapshots from i on, "daily change = cumulative -
\* prev", then prev = cumulative: the sequence of the daily realized changes
RECURSIVE DailyRealizedPnlChanges(_, _, _, _)
DailyRealizedPnlChanges(ledger, results, i, prev_realized_pnl) ==
    IF i > Len(results) THEN <<>>
    ELSE LET cumulative_realized_pnl == CumulativeRealizedPnl(ledger, 1, results[i].date)
         IN  <<cumulative_realized_pnl - prev_realized_pnl>>
                \o DailyRealizedPnlChanges(ledger, results, i + 1, cumulative_realized_pnl)

\* show: the per-day table starts from prev_realized_pnl = 0
TableRealizedPnlChanges(ledger, results) ==
    DailyRealizedPnlChanges(ledger, results, 1, 0)

\* create_calendar_heatmap: prev_realized_pnl before the first snapshot of the
\* month, every month starting from 0
PrevRealizedPnl_Zero(ledger, results, first_date) == 0

\* create_calendar_heatmap: prev_realized_pnl before the first snapshot of the
\* month, from the last snapshot dated before it (0 when there is none).  The
\* snapshots are appended in date order, which sorted() keeps.
PrevRealizedPnl(ledger, results, first_date) ==
    LET before == {i \in DOMAIN results : results[i].date < first_date}
    IN  IF before = {} THEN 0
        ELSE CumulativeRealizedPnl(ledger, 1,
                results[CHOOSE i \in before : \A j \in before : j <= i].date)

\* month_data of create_calendar_heatmap
MonthData(results, month) ==
    LET InMonth(result) == MonthOf(result.date) = month
    IN  SelectSeq(results, InMonth)

\* create_calendar_heatmap(simulation_results, trade_history, year, month):
\* the daily realized changes of the snapshots of the month, in date order
CalendarRealizedPnlChanges(ledger, results, month) ==
    LET month_data == MonthData(results, month)
    IN  IF month_data = <<>> THEN <<>>
        ELSE DailyRealizedPnlChanges(ledger, month_data, 1,
                PrevRealizedPnl(ledger, results, month_data[1].date))

\* total_cost and the unrealized figures are floats that divisions produce;
\* the model keeps them as exact fractions in lowest terms.
RECURSIVE Gcd(_, _)
Gcd(a, b) == IF b = 0 THEN a ELSE Gcd(b, a % b)

Fraction(num, den) ==
    LET g == Gcd(IF num < 0 THEN 0 - num ELSE num, den)
    IN  [num |-> num \div g, den |-> den \div g]

Whole(amount) == [num |-> amount, den |-> 1]

Plus(f, g) == Fraction(f.num * g.den + g.num * f.den, f.den * g.den)

Minus(f, g) == Fraction(f.num * g.den - g.num * f.den, f.den * g.den)

\* "if stock_code not in holdings": the entry a ticker starts with
NewHolding(currency) ==
    [total_shares |-> 0, total_cost |-> Whole(0), currency |-> currency]

NotHeld == NewHolding("none")

\* a sale that takes its proceeds off total_cost
ApplyTrade_AtSalePrice(holding, trade) ==
    IF trade.action = BUY
    THEN [holding EXCEPT
            !.total_shares = @ + trade.shares,
            !.total_cost = Plus(@, Whole(
                IF trade.currency = "USD" /\ Truthy(trade.exchange_rate)
                THEN Money(trade.price * trade.shares) * trade.exchange_rate
                ELSE Money(trade.price * trade.shares)))]
    ELSE IF holding.total_shares > 0
    THEN [holding EXCEPT
            !.total_shares = @ - trade.shares,
            !.total_cost = Minus(@, Whole(
                IF trade.currency = "USD" /\ Truthy(trade.exchange_rate)
                THEN Money(trade.price * trade.shares) * trade.exchange_rate
                ELSE Money(trade.price * trade.shares)))]
    ELSE holding

\* one record of the replay: a BUY adds its shares and its cost, a SELL takes
\* sell_ratio = shares / total_shares off both when shares are held
ApplyTrade(holding, trade) ==
    IF trade.action = BUY
    THEN [holding EXCEPT
            !.total_shares = @ + trade.shares,
            !.total_cost = Plus(@, Whole(
                IF trade.currency = "USD" /\ Truthy(trade.exchange_rate)
                THEN Money(trade.price * trade.shares) * trade.exchange_rate
                ELSE Money(trade.price * trade.shares)))]
    ELSE IF holding.total_shares > 0
    THEN [holding EXCEPT
            !.total_shares = @ - trade.shares,
            !.total_cost = Fraction(@.num * (holding.total_shares - trade.shares),
                                    @.den * holding.total_shares)]
    ELSE holding

\* "for trade in trade_history: if trade['date'] <= result_date": holdings
RECURSIVE RebuildHoldings(_, _, _, _)
RebuildHoldings(ledger, i, result_date, holdings) ==
    IF i > Len(ledger) THEN holdings
    ELSE IF ledger[i].date <= result_date
    THEN LET stock_code == ledger[i].stock_code
             holding == IF holdings[stock_code] = NotHeld
                        THEN NewHolding(ledger[i].currency)
                        ELSE holdings[stock_code]
         IN  RebuildHoldings(ledger, i + 1, result_date,
                [holdings EXCEPT ![stock_code] = ApplyTrade(holding, ledger[i])])
    ELSE RebuildHoldings(ledger, i + 1, result_date, holdings)

\* get_stock_price_cached(stock_code, date_str) of a date on which the run
\* looked the ticker up: the memoized result
MemoizedPrice(stock_code, date) ==
    LET looked == {i \in DOMAIN quotes : quotes[i].date = date}
    IN  IF looked = {} THEN None
        ELSE quotes[CHOOSE i \in looked : TRUE].prices[stock_code]

\* pnl of one holding on the snapshot result, 0 when it is left out
UnrealizedPnl(stock_code, holding, result) ==
    LET current_price == MemoizedPrice(stock_code, result.date)
        current_value ==
            IF holding.currency = "USD" /\ Truthy(result.exchange_rate)
            THEN Money(current_price * holding.total_shares) * result.exchange_rate
            ELSE Money(current_price * holding.total_shares)
    IN  IF holding.total_shares > 0 /\ current_price # None /\ current_price > 0
        THEN Minus(Whole(current_value), holding.total_cost)
        ELSE Whole(0)

RECURSIVE SumUnrealized(_, _, _)
SumUnrealized(codes, holdings, result) ==
    IF codes = {} THEN Whole(0)
    ELSE LET stock_code == CHOOSE c \in codes : TRUE
         IN  Plus(UnrealizedPnl(stock_code, holdings[stock_code], result),
                  SumUnrealized(codes \ {stock_code}, holdings, result))

\* cumulative_unrealized_pnl of the snapshot result
CumulativeUnrealizedPnl(ledger, result) ==
    SumUnrealized(Tickers,
                  RebuildHoldings(ledger, 1, result.date, [t \in Tickers |-> NotHeld]),
                  result)

-----------------------------------------------------------------------------
(* calculate_risk_metrics, called with the total_value of each snapshot.    *)
(* Of the returned metrics the model holds max_drawdown, an exact fraction, *)
(* and total_trades; the return and volatility figures are left out, and    *)
(* none of their statements raises.                                         *)
(***************************************************************************)

\* the longest series the function is called with
MaxSeries == 4

\* the total values of a series
RiskValues == {0, 1, 2, 4}

RiskSeries == UNION {[1..n -> RiskValues] : n \in 0..MaxSeries}

\* "return {}"
NoMetrics == [fn |-> "calculate_risk_metrics", empty |-> TRUE]

\* "drawdown = (peak - value) / peak" with a peak of 0
ZeroDivisionError == [fn |-> "calculate_risk_metrics", raised |-> "ZeroDivisionError"]

\* the peak is the first value throughout
Peak_First(peak, value) == peak

\* "if value > peak: peak = value"
Peak(peak, value) == IF value > peak THEN value ELSE peak

\* "max(max_drawdown, drawdown)"
Larger(max_drawdown, drawdown) ==
    IF drawdown.num * max_drawdown.den > max_drawdown.num * drawdown.den
    THEN drawdown ELSE max_drawdown

\* "for value in values:" from the i-th value on
RECURSIVE DrawdownLoop(_, _, _, _)
DrawdownLoop(values, i, peak, max_drawdown) ==
    IF i > Len(values) THEN max_drawdown
    ELSE LET new_peak == Peak(peak, values[i])
         IN  IF new_peak = 0 THEN ZeroDivisionError
             ELSE DrawdownLoop(values, i + 1, new_peak,
                      Larger(max_drawdown, Fraction(new_peak - values[i], new_peak)))

\* calculate_risk_metrics(simulation_results), values being the total_value
\* of the snapshots; daily_returns has an entry for each value but the last
\* that is greater than 0
calculate_risk_metrics(values) ==
    IF Len(values) < 2 THEN NoMetrics
    ELSE IF ~\E i \in 1..(Len(values) - 1) : values[i] > 0 THEN NoMetrics
    ELSE LET max_drawdown == DrawdownLoop(values, 1, values[1], Whole(0))
         IN  IF max_drawdown = ZeroDivisionError THEN ZeroDivisionError
             ELSE [fn |-> "calculate_risk_metrics",
                   max_drawdown |-> Fraction(max_drawdown.num * 100, max_drawdown.den),
                   total_trades |-> Len(values)]

\* a call calculate_risk_metrics(simulation_results)
RiskMetrics ==
    /\ \E values \in RiskSeries :
          call' = [fn |-> "calculate_risk_metrics", values |-> values,
                   result |-> calculate_risk_metrics(values)]
    /\ UNCHANGED <<run, price_cache, lru, saves, lot>>

RiskInit == InitFrom({PennilessConfig}, 0)

RiskNext == RiskMetrics

RiskSpec == RiskInit /\ [][RiskNext]_vars

-----------------------------------------------------------------------------
(* Properties *)

Rebalanced == day.kind = "rebalance"

\* the two buckets of the rebalance just completed
Buckets == {day.locals.jpy, day.locals.usd}

\* the ledger records of a date and currency, in ledger order
IsTradeOf(t, d, currency) == t.date = d /\ t.currency = currency

TradesOf(d, currency) == SelectSeq(trade_history, LAMBDA t : IsTradeOf(t, d, currency))

\* what a record moves into the cash of its bucket: a SELL brings in value
\* minus cost, a BUY takes out value plus cost, with cost = value * 0.0017
CashFlow(t) ==
    LET value == t.shares * t.price * Scale
        cost  == t.shares * t.price * 17
    IN  IF t.action = SELL THEN value - cost ELSE 0 - (value + cost)

RECURSIVE SumCashFlow(_)
SumCashFlow(ts) == IF ts = <<>> THEN 0 ELSE CashFlow(Head(ts)) + SumCashFlow(Tail(ts))

\* C1: on a rebalance day the cash of each bucket after the rebalance is its
\* cash before plus the proceeds of that day's SELL records of the currency
\* minus the outlay of that day's BUY records of the currency.
C1_CashConservation ==
    Rebalanced =>
        /\ jpy_cash = day.locals.jpy.cash_before + SumCashFlow(TradesOf(day.date, "JPY"))
        /\ usd_cash = day.locals.usd.cash_before + SumCashFlow(TradesOf(day.date, "USD"))

-----------------------------------------------------------------------------
(* C2: the cash of a bucket is never negative *)

\* a rebalance bought fewer shares of a ticker than its target asks for: the
\* purchase was cut down to the cash at hand, or dropped
Clipped(r) ==
    \E i \in DOMAIN r.target :
        Get(r.portfolio, r.target[i][1], 0) < r.target[i][2]

\* the percentages of the schedule sum to more than 100
OverAllocated(ratios) ==
    ratios[1] + ratios[2] + ratios[3] + ratios[4] + ratios[5]
        + ratios[6] + ratios[7] + ratios[8] + ratios[9] + ratios[10] > 100

\* C2: in every state of the run and in every daily snapshot jpy_cash >= 0
\* and usd_cash >= 0, also under a schedule whose percentages sum to more
\* than 100.
C2_CashNeverNegative ==
    /\ jpy_cash >= 0
    /\ usd_cash >= 0
    /\ \A i \in DOMAIN simulation_results :
          simulation_results[i].jpy_cash >= 0 /\ simulation_results[i].usd_cash >= 0

\* a rebalance under an over-allocated schedule cut a purchase down to the
\* cash at hand and left cash that no further share could be bought with
C2_Witness ==
    /\ Rebalanced
    /\ OverAllocated(cfg.jpy_allocation_ratios)
    /\ Clipped(day.locals.jpy)
    /\ \E i \in DOMAIN trade_history :
          trade_history[i].date = day.date /\ trade_history[i].action = BUY
    /\ jpy_cash >= 0

-----------------------------------------------------------------------------
(* C3, C4: the days on which the rebalance runs *)

\* the nearest weekday strictly before d
NearestWeekdayBefore(d) ==
    CHOOSE w \in 0..(d - 1) :
        /\ Weekday(w) \notin {5, 6}
        /\ \A x \in (w + 1)..(d - 1) : Weekday(x) \in {5, 6}

\* the first weekday strictly after d
FirstWeekdayAfter(d) ==
    CHOOSE w \in (d + 1)..(d + 3) :
        /\ Weekday(w) \notin {5, 6}
        /\ \A x \in (d + 1)..(w - 1) : Weekday(x) \in {5, 6}

\* the vote of date v ranked at least one ticker in either bucket
Ranked(v) == v \in VoteDates /\ (votes[v].jpy_stocks # <<>> \/ votes[v].usd_stocks # <<>>)

\* the last loop iteration was a weekday whose FX rate resolved
WeekdayWithRate == day.kind \in {"hold", "rebalance"}

\* C3: on a weekday whose FX rate resolves the rebalance runs if and only if
\* the nearest weekday strictly before it is a vote weekday whose tally ranks
\* at least one ticker; every trade record is dated on such a day.
C3_RebalanceIffVoted ==
    /\ WeekdayWithRate =>
          (Rebalanced <=>
              /\ Weekday(NearestWeekdayBefore(day.date)) \in VoteWeekdays
              /\ Ranked(NearestWeekdayBefore(day.date)))
    /\ \A i \in DOMAIN trade_history :
          /\ Weekday(trade_history[i].date) \notin {5, 6}
          /\ Weekday(NearestWeekdayBefore(trade_history[i].date)) \in VoteWeekdays
          /\ Ranked(NearestWeekdayBefore(trade_history[i].date))

\* the rebalance has run on the day after a vote and appended a trade, after
\* an earlier vote weekday whose tally was empty passed without one
C3_Witness ==
    /\ Rebalanced
    /\ \E i \in DOMAIN trade_history : trade_history[i].date = day.date
    /\ \E i \in DOMAIN simulation_results :
          /\ simulation_results[i].is_trade_day
          /\ simulation_results[i].date < day.date
          /\ ~Ranked(NearestWeekdayBefore(simulation_results[i].date))

\* C4: votes of a Tuesday or a Saturday are acted on: when the vote date
\* ranked a ticker and the FX rate of the first weekday after it resolves,
\* that weekday is a rebalance day and its trades carry the vote date.
C4_VotesActedOn ==
    \A v \in VoteDates :
        (WeekdayWithRate /\ day.date = FirstWeekdayAfter(v) /\ Ranked(v)) =>
            /\ Rebalanced
            /\ \A i \in DOMAIN trade_history :
                  trade_history[i].date = day.date => trade_history[i].vote_date = v

-----------------------------------------------------------------------------
(* C5, C6, C7: the capital a bucket's targets are computed from *)

\* every total the rebalance compared with the ceiling, and the total of the
\* day's snapshot, is within 50 times the initial total capital
WithinCeiling(r) ==
    /\ r.temp_total_value <= r.ceiling
    /\ r.final_total_value <= r.ceiling
    /\ simulation_results[Len(simulation_results)].total_value <= r.ceiling

\* C5: on a rebalance day whose total value does not exceed 50 times the
\* initial total capital, the capital a bucket's targets are computed from
\* is the value of its positions after the exit pass at today's prices plus
\* its cash including the exit proceeds, whatever the holdings are.
C5_InvestableCapital ==
    Rebalanced =>
        \A r \in Buckets :
            WithinCeiling(r) =>
                r.investment_value = r.temp_portfolio_value + r.cash_after_exit

JpyBesideIdleUsd ==
    RebalanceBucket(
        [day.locals.jpy.bucket EXCEPT
            !.other_empty = TRUE,
            !.other_value = (Money(cfg.initial_usd) \div initial_exchange_rate)
                                * day.exchange_rate])

\* C7: two runs that agree on the day, the FX rate, the JPY vote list, prices,
\* positions and cash, both within the ceiling, make the same JPY trades and
\* end with the same JPY positions and cash, whatever their USD buckets hold.
C7_JpyIndependentOfUsd ==
    Rebalanced =>
        \A r \in {day.locals.jpy}, alone \in {JpyBesideIdleUsd} :
            (/\ r.temp_total_value <= r.ceiling
             /\ r.final_total_value <= r.ceiling
             /\ alone.temp_total_value <= alone.ceiling
             /\ alone.final_total_value <= alone.ceiling) =>
                /\ alone.trades = r.trades
                /\ alone.portfolio = r.portfolio
                /\ alone.cash = r.cash

-----------------------------------------------------------------------------
(* C8, C9: the exit pass and the price guard *)

\* the positions bucket r held before the rebalance: indices into the dict
Held(r) == DOMAIN r.bucket.portfolio

Code(r, i) == r.bucket.portfolio[i][1]

Shares(r, i) == r.bucket.portfolio[i][2]

PriceToday(r, i) == r.bucket.prices[Code(r, i)]

\* the bucket's positions as the run holds them after the rebalance
PortfolioNow(r) == IF r.currency = "JPY" THEN jpy_portfolio ELSE usd_portfolio

\* the records the day's rebalance appended for a ticker: indices into the ledger
RecordsOf(stock_code) ==
    {j \in DOMAIN trade_history :
        trade_history[j].date = day.date /\ trade_history[j].stock_code = stock_code}

\* a held ticker with n > 0 shares, absent from the vote list, with a price today
Exits(r, i) ==
    /\ Shares(r, i) > 0
    /\ \A k \in DOMAIN r.bucket.stocks : r.bucket.stocks[k] # Code(r, i)
    /\ PriceToday(r, i) # None

\* the sum of n * p - cost(n * p) over the positions that exit, cost(v) = v * 0.0017
RECURSIVE ExitCredit(_, _)
ExitCredit(r, i) ==
    IF i = 0 THEN 0
    ELSE ExitCredit(r, i - 1)
         + (IF Exits(r, i)
            THEN Shares(r, i) * PriceToday(r, i) * Scale - Shares(r, i) * PriceToday(r, i) * 17
            ELSE 0)

\* C8: a held ticker with n > 0 shares that is absent from the bucket's vote
\* list and has a price p today leaves the position map, exactly one record
\* is appended for it, a SELL of n shares at p, and the cash of the bucket
\* grows by n * p - cost(n * p).
C8_ExitPass ==
    Rebalanced =>
        \A r \in Buckets :
            /\ \A i \in Held(r) :
                  Exits(r, i) =>
                      /\ ~Has(PortfolioNow(r), Code(r, i))
                      /\ Cardinality(RecordsOf(Code(r, i))) = 1
                      /\ \A j \in RecordsOf(Code(r, i)) :
                            /\ trade_history[j].action = SELL
                            /\ trade_history[j].shares = Shares(r, i)
                            /\ trade_history[j].price = PriceToday(r, i)
                            /\ trade_history[j].currency = r.currency
            /\ r.cash_after_exit = r.bucket.cash + ExitCredit(r, Len(r.bucket.portfolio))

\* the rebalance has sold out a ticker that fell off the vote list while it
\* bought the ticker that took its place
C8_Witness ==
    /\ Rebalanced
    /\ \E i \in Held(day.locals.jpy) :
          /\ Exits(day.locals.jpy, i)
          /\ day.locals.jpy.cash_after_exit > day.locals.jpy.bucket.cash
    /\ jpy_portfolio # <<>>

\* a held ticker whose price lookup returned nothing today
Unknown(r, i) == PriceToday(r, i) = None

\* C9: a held ticker whose price is unknown on a rebalance day keeps its share
\* count, gets no trade record and brings in no cash, whether it is absent
\* from the vote list or held above its target; the position stays in the
\* snapshot of the day.
C9_UnknownPriceUntouched ==
    Rebalanced =>
        \A r \in Buckets :
            /\ \A i \in Held(r) :
                  Unknown(r, i) =>
                      /\ Has(PortfolioNow(r), Code(r, i))
                      /\ Get(PortfolioNow(r), Code(r, i), 0) = Shares(r, i)
                      /\ RecordsOf(Code(r, i)) = {}
            /\ (\A i \in Held(r) : Unknown(r, i)) => r.cash_after_sells = r.bucket.cash
            /\ simulation_results[Len(simulation_results)].jpy_portfolio = jpy_portfolio
            /\ simulation_results[Len(simulation_results)].usd_portfolio = usd_portfolio

\* the rebalance met two held tickers without a price, one on the vote list
\* and so above its target of 0, the other absent from the list
C9_Witness ==
    /\ Rebalanced
    /\ \E i, k \in Held(day.locals.jpy) :
          /\ Unknown(day.locals.jpy, i) /\ Shares(day.locals.jpy, i) > 0
          /\ Code(day.locals.jpy, i) \in Range(day.locals.jpy.bucket.stocks)
          /\ Unknown(day.locals.jpy, k) /\ Shares(day.locals.jpy, k) > 0
          /\ Code(day.locals.jpy, k) \notin Range(day.locals.jpy.bucket.stocks)

-----------------------------------------------------------------------------
(* C10: the target share count *)

\* floor(investable_capital * weight * (1 - 0.0017) / 100), in 1/100 of a
\* currency unit: the product a * b of the capital a and b = weight * 9983
\* is divided by Scale * Scale digit by digit
NetQuota(investable_capital, weight) ==
    LET a1 == investable_capital \div Scale
        a0 == investable_capital % Scale
        b1 == (weight * 9983) \div Scale
        b0 == (weight * 9983) % Scale
    IN  a1 * b1 + (a1 * b0 + a0 * b1 + (a0 * b0) \div Scale) \div Scale

\* k = floor((N - cost(N)) / p) with N = investable_capital * weight / 100
IsFloorOfNetOverPrice(k, investable_capital, weight, p) ==
    /\ k * p * 100 <= NetQuota(investable_capital, weight)
    /\ NetQuota(investable_capital, weight) < (k + 1) * p * 100

\* C10: for every rank of the vote list within the schedule whose ticker has
\* a price p > 0, the target share count is floor((N - cost(N)) / p) with
\* N = investable capital * weight / 100; the ticker is in the target map if
\* and only if that count is at least 1, and every count in the map is a
\* positive integer.
C10_TargetShares ==
    Rebalanced =>
        \A r \in Buckets :
            /\ \A i \in DOMAIN r.bucket.stocks :
                  (/\ i <= Len(r.bucket.allocation_ratios)
                   /\ r.bucket.prices[r.bucket.stocks[i]] # None
                   /\ r.bucket.prices[r.bucket.stocks[i]] > 0) =>
                      /\ IsFloorOfNetOverPrice(Get(r.target, r.bucket.stocks[i], 0),
                            r.investment_value, r.bucket.allocation_ratios[i],
                            r.bucket.prices[r.bucket.stocks[i]])
                      /\ Has(r.target, r.bucket.stocks[i])
                            <=> Get(r.target, r.bucket.stocks[i], 0) >= 1
            /\ \A i \in DOMAIN r.target : r.target[i][2] \in Nat \ {0}

\* a rebalance whose first rank gets a target the trading cost makes one
\* share smaller than the notional alone would buy, and whose second rank is
\* dropped because its price leaves less than one share
C10_Witness ==
    /\ Rebalanced
    /\ \E r \in Buckets :
          /\ Len(r.bucket.stocks) = 2
          /\ r.bucket.prices[r.bucket.stocks[1]] # None
          /\ r.bucket.prices[r.bucket.stocks[2]] # None
          /\ Has(r.target, r.bucket.stocks[1])
          /\ (Get(r.target, r.bucket.stocks[1], 0) + 1)
                * r.bucket.prices[r.bucket.stocks[1]] * Scale * 100
                    <= r.investment_value * r.bucket.allocation_ratios[1]
          /\ ~Has(r.target, r.bucket.stocks[2])

-----------------------------------------------------------------------------
(* C11: the scenario of the first purchase, under ScenarioSpec *)

\* the first rebalance of the scenario: no holdings, the whole initial capital
\* in cash, 7203 alone on the JPY vote list, at the scenario's price
ScenarioRebalance ==
    /\ Rebalanced
    /\ cfg = ScenarioConfig
    /\ day.locals.jpy.bucket.portfolio = <<>>
    /\ day.locals.jpy.bucket.cash = Money(cfg.initial_jpy)
    /\ day.locals.jpy.bucket.stocks = <<"7203">>
    /\ day.prices["7203"] = 1

\* yen as money of the scenario, whose unit is 2,000 yen: Scale / 2000 = 5
Yen(amount) == amount * 5

\* C11, as the code computes it: the first rebalance of the scenario buys
\* exactly 499 shares of 7203 and leaves 1,000,000 - 998,000 - 1,696.6 =
\* 303.4 yen of JPY cash.
C11_ScenarioBuys499 ==
    ScenarioRebalance =>
        /\ jpy_portfolio = << <<"7203", 499>> >>
        /\ TradesOf(day.date, "JPY")
              = << [date |-> day.date, vote_date |-> day.date - 1, stock_code |-> "7203",
                    action |-> BUY, shares |-> 499, price |-> 1,
                    value |-> 499 * Scale, currency |-> "JPY", exchange_rate |-> None] >>
        /\ 10 * jpy_cash = Yen(3034)

\* the scenario's first rebalance has run and bought
C11_Witness ==
    /\ ScenarioRebalance
    /\ Has(jpy_portfolio, "7203")
    /\ jpy_cash < Money(cfg.initial_jpy)

\* C11 as stated: the first rebalance of the scenario buys exactly 499 shares
\* of 7203 and leaves JPY cash between 2,200 and 2,400.
C11_ScenarioCashAbout2300 ==
    ScenarioRebalance =>
        /\ jpy_portfolio = << <<"7203", 499>> >>
        /\ Yen(2200) <= jpy_cash
        /\ jpy_cash <= Yen(2400)

-----------------------------------------------------------------------------
(* C12: the partial purchase *)

\* what n shares at price p cost with the trading cost: n * p * 1.0017
CostOfBuying(n, p) == n * p * (Scale + 17)

\* k = floor(0.99 * cash / (p * 1.0017)); 0.99 * cash is taken in hundredths
\* of cash to stay in range
IsMaxAffordable(k, cash, p) ==
    LET margin == 99 * (cash \div 100) + (99 * (cash % 100)) \div 100
    IN  CostOfBuying(k, p) <= margin /\ margin < CostOfBuying(k + 1, p)

\* the BUY records the day's rebalance appended for a ticker
BuysOf(stock_code) == {j \in RecordsOf(stock_code) : trade_history[j].action = BUY}

\* The buy pass of bucket r from rank i of its target map on, with `cash`
\* available to rank i, follows the rule: the whole shortfall when the cash
\* covers its cost, else k shares with one BUY record of k when k >= 1, else
\* nothing; the cash left after the last rank is the cash of the bucket.
RECURSIVE BuyPassFollowsRule(_, _, _)
BuyPassFollowsRule(r, i, cash) ==
    IF i > Len(r.target) THEN cash = r.cash
    ELSE
        LET stock_code == r.target[i][1]
            shortfall  == r.target[i][2] - Get(r.portfolio_after_trim, stock_code, 0)
            bought     == Get(r.portfolio, stock_code, 0)
                              - Get(r.portfolio_after_trim, stock_code, 0)
            p          == r.bucket.prices[stock_code]
        IN  IF shortfall <= 0
            THEN bought = 0 /\ BuysOf(stock_code) = {}
                 /\ BuyPassFollowsRule(r, i + 1, cash)
            ELSE IF CostOfBuying(shortfall, p) <= cash
            THEN bought = shortfall
                 /\ BuyPassFollowsRule(r, i + 1, cash - CostOfBuying(shortfall, p))
            ELSE \E k \in 0..shortfall :
                    /\ IsMaxAffordable(k, cash, p)
                    /\ bought = k
                    /\ k = 0 => BuysOf(stock_code) = {}
                    /\ k >= 1 =>
                          /\ Cardinality(BuysOf(stock_code)) = 1
                          /\ \A j \in BuysOf(stock_code) : trade_history[j].shares = k
                    /\ BuyPassFollowsRule(r, i + 1, cash - CostOfBuying(k, p))

\* C12: in the buy pass, when the cost of the full shortfall exceeds the cash
\* of the bucket, k = floor(0.99 * cash / (price * 1.0017)) shares are bought
\* if k >= 1, with a BUY record of k shares and k added to the holding; the
\* ticker is skipped only when k = 0.
C12_PartialBuy ==
    Rebalanced =>
        \A r \in Buckets : BuyPassFollowsRule(r, 1, r.cash_after_sells)

\* a rebalance could not pay for the whole shortfall of a ticker and bought
\* a part of it
C12_Witness ==
    /\ Rebalanced
    /\ \E r \in Buckets : \E i \in DOMAIN r.target :
          /\ Get(r.portfolio, r.target[i][1], 0) < r.target[i][2]
          /\ Get(r.portfolio, r.target[i][1], 0)
                > Get(r.portfolio_after_trim, r.target[i][1], 0)
          /\ BuysOf(r.target[i][1]) # {}

-----------------------------------------------------------------------------
(* C13, C14: the trade ledger *)

\* C13: every record of the ledger has shares > 0 and price > 0, is a BUY or
\* a SELL, and has no exchange_rate if and only if its currency is JPY, after
\* any sequence of rebalance days, also when a voted ticker's target is zero.
C13_TradeRecordsWellFormed ==
    \A i \in DOMAIN trade_history :
        /\ trade_history[i].shares > 0
        /\ trade_history[i].price > 0
        /\ trade_history[i].action \in {BUY, SELL}
        /\ trade_history[i].exchange_rate = None <=> trade_history[i].currency = "JPY"

\* the ledger is ordered by trade date and every record's vote date lies
\* strictly before its trade date
LedgerOrdered ==
    \A i \in DOMAIN trade_history :
        /\ trade_history[i].vote_date < trade_history[i].date
        /\ i > 1 => trade_history[i - 1].date <= trade_history[i].date

\* a step keeps every record of the ledger as it is and at its place
LedgerExtended ==
    /\ Len(trade_history') >= Len(trade_history)
    /\ SubSeq(trade_history', 1, Len(trade_history)) = trade_history

\* C14: the ledger is append-only and ordered: no step modifies or removes a
\* record, trade dates are non-decreasing along the ledger and every record's
\* vote_date is strictly before its trade date.
C14_LedgerAppendOnly == [][LedgerExtended]_vars /\ []LedgerOrdered

\* the ledger holds the records of two rebalance days
C14_Witness ==
    /\ Len(trade_history) >= 3
    /\ trade_history[1].date < trade_history[Len(trade_history)].date
    /\ Rebalanced

-----------------------------------------------------------------------------
(* C15 .. C18: the daily snapshots *)

\* Saturday or Sunday, by the day number
IsWeekend(d) == d % 7 = 5 \/ d % 7 = 6

\* the weekdays the loop has gone through so far
WeekdaysDone == {d \in cfg.start_date..(current_date - 1) : ~IsWeekend(d)}

LastSnapshot == simulation_results[Len(simulation_results)]

\* C15: there is exactly one snapshot for every weekday from start_date to
\* end_date whose FX rate resolves to a positive value, none for a weekend day
\* or a day whose FX rate does not resolve, and the snapshot dates are
\* strictly increasing.
C15_OneSnapshotPerTradingDay ==
    /\ \A i \in DOMAIN simulation_results :
          /\ ~IsWeekend(simulation_results[i].date)
          /\ simulation_results[i].date \in cfg.start_date..cfg.end_date
          /\ simulation_results[i].exchange_rate > 0
          /\ i > 1 => simulation_results[i - 1].date < simulation_results[i].date
    /\ Len(simulation_results) + fx_misses = Cardinality(WeekdaysDone)
    /\ WeekdayWithRate =>
          /\ day.exchange_rate > 0
          /\ simulation_results # <<>>
          /\ LastSnapshot.date = day.date
    /\ day.kind \in {"weekend", "fxskip"} =>
          \A i \in DOMAIN simulation_results : simulation_results[i].date # day.date
    /\ day.kind = "weekend" <=> (day # NoDay /\ IsWeekend(day.date))
    /\ day.kind = "fxskip" => (day.exchange_rate = None \/ day.exchange_rate <= 0)

\* the run is over a weekend and a weekday without FX rate, and has appended
\* snapshots before and after both
C15_Witness ==
    /\ fx_misses >= 1
    /\ Len(simulation_results) >= 5
    /\ WeekdayWithRate
    /\ \E i \in DOMAIN simulation_results :
          i > 1 /\ simulation_results[i].date > simulation_results[i - 1].date + 2
    /\ \E i \in DOMAIN simulation_results :
          i > 1 /\ simulation_results[i].date = simulation_results[i - 1].date + 2


\* the value a snapshot's rate is measured against: the total of the snapshot
\* appended before it, the initial capital for the first one
PrevTotal(i) ==
    IF i = 1 THEN Money(cfg.initial_jpy) + Money(cfg.initial_usd)
    ELSE simulation_results[i - 1].total_value

\* C16: every snapshot's daily_pnl_rate is (total_value - prev) / prev * 100,
\* prev being the total_value of the snapshot appended just before it (a day
\* skipped for want of an FX rate does not reset it) or initial_jpy +
\* initial_usd for the first snapshot, and it is 0 when prev is not positive.
\* The rate is kept as the fraction num / den, the factor 100 left out.
C16_DailyPnlRate ==
    \A i \in DOMAIN simulation_results :
        LET snapshot == simulation_results[i]
            prev == PrevTotal(i)
        IN  IF prev > 0
            THEN /\ snapshot.daily_pnl_rate.num = snapshot.total_value - prev
                 /\ snapshot.daily_pnl_rate.den = prev
            ELSE snapshot.daily_pnl_rate.num = 0

\* a snapshot that follows a day skipped for want of an FX rate shows a gain or
\* loss against the snapshot before the skip, whose total was not the initial capital
C16_Witness ==
    \E i \in DOMAIN simulation_results :
        /\ i > 1
        /\ simulation_results[i].date % 7 \in 2..4
        /\ simulation_results[i - 1].date = simulation_results[i].date - 2
        /\ simulation_results[i].daily_pnl_rate.num # 0
        /\ PrevTotal(i) # PrevTotal(1)
        /\ PrevTotal(i) > 0

\* a run without capital: every snapshot is measured against a total of 0
C16_PennilessRun ==
    /\ Len(simulation_results) >= 2
    /\ \A i \in DOMAIN simulation_results : PrevTotal(i) = 0


\* C17: a snapshot's is_trade_day flag is true if and only if the rebalance
\* ran on its day, that is the vote of the day before ranked at least one
\* ticker; it is false on a weekday that follows a vote weekday whose tally
\* was empty.
C17_FlagIffRebalanced ==
    WeekdayWithRate => (LastSnapshot.is_trade_day <=> Rebalanced)


\* the snapshots appended so far keep their position maps in this step
SnapshotsKeepPositions ==
    /\ Len(simulation_results') >= Len(simulation_results)
    /\ \A i \in DOMAIN simulation_results :
          /\ simulation_results'[i].jpy_portfolio = simulation_results[i].jpy_portfolio
          /\ simulation_results'[i].usd_portfolio = simulation_results[i].usd_portfolio

-----------------------------------------------------------------------------
(* C19, C20: days and runs without an FX rate *)

\* this step is a loop iteration that found no usable FX rate
SkipsForFx == day' # day /\ day'.kind = "fxskip"

\* C19: when the FX lookup of a weekday after the start date returns None or a
\* non-positive rate, the day appends no snapshot and no trade record, leaves
\* both portfolios and both cash balances as they were, and the loop goes on
\* with the next calendar day; no day with such a rate is valued or traded.
C19_FxSkipLeavesStateAlone ==
    /\ [][SkipsForFx =>
            /\ day'.date = current_date
            /\ day'.date > cfg.start_date
            /\ ~IsWeekend(day'.date)
            /\ simulation_results' = simulation_results
            /\ trade_history' = trade_history
            /\ jpy_portfolio' = jpy_portfolio
            /\ usd_portfolio' = usd_portfolio
            /\ jpy_cash' = jpy_cash
            /\ usd_cash' = usd_cash
            /\ previous_total_value' = previous_total_value
            /\ current_date' = current_date + 1
            /\ pc' = "loop"]_vars
    /\ [](day.kind = "fxskip" <=>
            (day.kind \in {"fxskip", "hold", "rebalance"}
                /\ (day.exchange_rate = None \/ day.exchange_rate <= 0)))

\* a day is skipped for want of an FX rate while positions are held, and the
\* run goes on to value the next day
C19_Witness ==
    /\ fx_misses >= 1
    /\ WeekdayWithRate
    /\ jpy_portfolio # <<>>
    /\ Len(simulation_results) >= 2
    /\ simulation_results[Len(simulation_results) - 1].date = day.date - 2
    /\ day.date % 7 \in 2..4
    /\ simulation_results[Len(simulation_results) - 1].jpy_portfolio # <<>>


\* the rate the start of the run looked up is None or not positive
StartRateUnresolved == initial_exchange_rate = None \/ initial_exchange_rate <= 0

\* C20: if the FX rate of the start date is None or <= 0, simulate_investment
\* simulates no day and returns an empty snapshot list and an empty ledger;
\* the loop is entered only with a positive start rate.
C20_StartWithoutRate ==
    /\ (pc # "start" /\ StartRateUnresolved) =>
          /\ pc = "done"
          /\ day = NoDay
          /\ current_date = cfg.start_date
          /\ simulation_results = <<>>
          /\ trade_history = <<>>
          /\ jpy_portfolio = <<>> /\ usd_portfolio = <<>>
    /\ pc = "loop" => ~StartRateUnresolved

\* the run has returned after a start rate of 0
C20_Witness ==
    /\ pc = "done"
    /\ initial_exchange_rate = 0
    /\ simulation_results = <<>>
    /\ trade_history = <<>>
    /\ cfg.end_date > cfg.start_date

-----------------------------------------------------------------------------
(* C21, C22: calculate_portfolio_value *)

Valued == call.fn = "calculate_portfolio_value"

\* the position map of the call with the share count of its i-th position set to m
Raised(i, m) == [call.portfolio EXCEPT ![i] = <<call.portfolio[i][1], m>>]

\* the i-th position of the call has a price that is known and positive
PricedPositive(i) ==
    /\ call.current_prices[call.portfolio[i][1]] # None
    /\ call.current_prices[call.portfolio[i][1]] > 0

\* shares * price of m lots of the i-th position, times the rate if the code
\* converts it, is at most 10^13 (in lots of 10^lot)
WithinMaxValue(i, m) ==
    LET stock_code == call.portfolio[i][1]
        factor == IF stock_code \in UsdTickers /\ call.exchange_rate # None
                     /\ call.exchange_rate > 0
                  THEN call.exchange_rate ELSE 1
    IN  m * call.current_prices[stock_code] * factor <= Pow10(MaxValidValueExponent - lot)

\* raising the i-th position to m shares does not lower the total
NotLowered(i, m) ==
    calculate_portfolio_value(Raised(i, m), call.current_prices, call.exchange_rate)
        >= call.result

\* C21 as amended: with the price of a ticker fixed and positive, raising its
\* share count from n to m > n never lowers the total of
\* calculate_portfolio_value, as long as the value of the m shares (shares *
\* price, times the FX rate where the code converts) is at most 10^13.
C21_MonotoneWithinMaxValue ==
    Valued =>
        \A i \in DOMAIN call.portfolio, m \in ShareCounts :
            (m > call.portfolio[i][2] /\ PricedPositive(i) /\ WithinMaxValue(i, m))
                => NotLowered(i, m)

\* C21 as stated: raising one share count from n to m > n, the price fixed and
\* positive, never lowers the total.
C21_MonotoneInShares ==
    Valued =>
        \A i \in DOMAIN call.portfolio, m \in ShareCounts :
            (m > call.portfolio[i][2] /\ PricedPositive(i)) => NotLowered(i, m)

\* a call on two positions, both valued, one of which can be raised within the
\* limit to a higher total
C21_Witness ==
    /\ Valued
    /\ Len(call.portfolio) = 2
    /\ \E i \in DOMAIN call.portfolio, m \in ShareCounts :
          /\ m > call.portfolio[i][2]
          /\ PricedPositive(i)
          /\ WithinMaxValue(i, m)
          /\ calculate_portfolio_value(Raised(i, m), call.current_prices,
                                       call.exchange_rate) > call.result
          /\ call.result > PositionValue(call.portfolio[i][1], call.portfolio[i][2],
                                         call.current_prices, call.exchange_rate)


\* the position map of the call without its i-th position
Without(i) == SubSeq(call.portfolio, 1, i - 1) \o SubSeq(call.portfolio, i + 1, Len(call.portfolio))

\* what the i-th position adds to the total of the call
Contribution(i) ==
    call.result - calculate_portfolio_value(Without(i), call.current_prices, call.exchange_rate)

PriceMissing(i) == call.current_prices[call.portfolio[i][1]] = None

IsUsd(i) == call.portfolio[i][1] \in UsdTickers

RateOutOfRange == call.exchange_rate # None /\ (call.exchange_rate <= 0 \/ call.exchange_rate > 1000)

-----------------------------------------------------------------------------
(* C23 .. C25: the price cache and the lookups *)

LookedUp(key) ==
    call.fn \in {"get_stock_price_cached", "get_exchange_rate"} /\ call.key = key

\* C23: get_stock_price_cached never returns an invalid price: its result is
\* None or a price p with 0 < p <= 1,000,000, whether it comes from the
\* network, from the table or from the lru_cache.
C23_LookupReturnsValidPrice ==
    call.fn = "get_stock_price_cached" =>
        (call.result = None \/ (0 < call.result /\ call.result <= 1000000))


\* the last call read the key: through get_price_from_cache or through a lookup
ReadOf(key) == (call.fn = "get_price_from_cache" /\ call.key = key) \/ LookedUp(key)

\* save_price_to_cache has been called for the key at least twice, with
\* different prices
SavedTwice(key) ==
    \E i, j \in DOMAIN saves[key] : i < j /\ saves[key][i] # saves[key][j]

\* C24: after save_price_to_cache is called twice for the same key with
\* different prices, in any interleaving with lookups of the key, every later
\* read of the key, through get_price_from_cache and through the lookups,
\* returns the price written last.
C24_LastWriteWins ==
    \A key \in CacheKeys :
        (SavedTwice(key) /\ ReadOf(key)) => call.result = saves[key][Len(saves[key])]


\* this step is a lookup of the key
LooksUp(key) ==
    /\ call' # call
    /\ call'.fn \in {"get_stock_price_cached", "get_exchange_rate"}
    /\ call'.key = key

\* C25: a cache hit has no side effects: once the table holds a price for a
\* key, every later lookup of the key returns the price in the table, fetches
\* nothing from the network and writes nothing to the table.
C25_CacheHitHasNoSideEffects ==
    [][\A key \in CacheKeys :
          (price_cache[key] # None /\ LooksUp(key)) =>
              /\ call'.result = price_cache[key]
              /\ ~call'.fetched
              /\ ~call'.saved
              /\ price_cache' = price_cache]_vars

-----------------------------------------------------------------------------
(* C26 .. C28: realized and unrealized profit and loss *)

\* the ledger index j is a BUY of the ticker of record i, dated before it
BoughtBefore(j, i) ==
    /\ trade_history[j].action = BUY
    /\ trade_history[j].stock_code = trade_history[i].stock_code
    /\ trade_history[j].date < trade_history[i].date

\* the matched buy of the sale i: the BUY of its ticker with the latest date
\* strictly before the date of the sale
MatchedBuy(i) ==
    CHOOSE j \in DOMAIN trade_history :
        /\ BoughtBefore(j, i)
        /\ \A k \in DOMAIN trade_history :
              BoughtBefore(k, i) => trade_history[k].date <= trade_history[j].date

\* (sell price - matched buy price) * sell shares, in JPY at the sale's own rate
MatchedPnl(i) ==
    (trade_history[i].price - trade_history[MatchedBuy(i)].price)
        * trade_history[i].shares * Scale
        * (IF trade_history[i].currency = "USD" THEN trade_history[i].exchange_rate ELSE 1)

SalesUpTo(d) ==
    {i \in DOMAIN trade_history : trade_history[i].action = SELL /\ trade_history[i].date <= d}

RECURSIVE SumOver(_, _)
SumOver(indices, i) ==
    IF i > Len(trade_history) THEN 0
    ELSE (IF i \in indices THEN MatchedPnl(i) ELSE 0) + SumOver(indices, i + 1)

\* C26: the cumulative realized P&L as of a snapshot date D is the sum, over
\* every SELL dated D or before, of (sell price - matched buy price) * sell
\* shares, times the SELL's own exchange rate when it is in USD; the matched
\* buy is the BUY of the same ticker with the latest date strictly before the
\* SELL, whether or not another SELL is matched to it.  The figures are those
\* of the ledger and the snapshots that the run has returned.
C26_RealizedPnl ==
    pc = "done" =>
        \A n \in DOMAIN simulation_results :
            CumulativeRealizedPnl(trade_history, 1, simulation_results[n].date)
                = SumOver(SalesUpTo(simulation_results[n].date), 1)

\* two sales of different dates are matched to the same BUY, a sale is matched
\* to the later of two BUYs of its ticker at another price, and a sale in USD
\* has made a gain or a loss
C26_Witness ==
    /\ \E i, j \in DOMAIN trade_history :
          /\ trade_history[i].action = SELL /\ trade_history[j].action = SELL
          /\ trade_history[i].date < trade_history[j].date
          /\ trade_history[i].stock_code = trade_history[j].stock_code
          /\ MatchedBuy(i) = MatchedBuy(j)
    /\ \E i \in DOMAIN trade_history :
          /\ trade_history[i].action = SELL
          /\ \E k \in DOMAIN trade_history : BoughtBefore(k, i) /\ k # MatchedBuy(i)
          /\ trade_history[i].price # trade_history[MatchedBuy(i)].price
    /\ \E i \in DOMAIN trade_history :
          /\ trade_history[i].action = SELL /\ trade_history[i].currency = "USD"
          /\ trade_history[i].price # trade_history[MatchedBuy(i)].price
    /\ pc = "done"
    /\ LastSnapshot.date >= trade_history[Len(trade_history)].date


RECURSIVE SumSeq(_)
SumSeq(s) == IF s = <<>> THEN 0 ELSE Head(s) + SumSeq(Tail(s))

\* the daily realized changes the calendar shows, month after month
CalendarChanges ==
    CalendarRealizedPnlChanges(trade_history, simulation_results, 1)
        \o CalendarRealizedPnlChanges(trade_history, simulation_results, 2)

\* C27: for every snapshot date D, the daily realized P&L changes shown for the
\* snapshot dates up to and including D add up to the cumulative realized P&L
\* computed from the ledger as of D, in the per-day table and in the calendar
\* across the boundary of two months.  The figures are those of the ledger and
\* the snapshots that the run has returned.
C27_RealizedPnlReconciles ==
    pc = "done" =>
        LET table == TableRealizedPnlChanges(trade_history, simulation_results)
            calendar == CalendarChanges
        IN  /\ Len(table) = Len(simulation_results)
            /\ Len(calendar) = Len(simulation_results)
            /\ \A n \in DOMAIN simulation_results :
                  LET cumulative == CumulativeRealizedPnl(trade_history, 1, simulation_results[n].date)
                  IN  /\ SumSeq(SubSeq(table, 1, n)) = cumulative
                      /\ SumSeq(SubSeq(calendar, 1, n)) = cumulative

\* a gain or a loss was realized before the month ended, another one after,
\* and the run has snapshots in both months
C27_Witness ==
    /\ pc = "done"
    /\ simulation_results # <<>>
    /\ \E n, k \in DOMAIN simulation_results :
          /\ MonthOf(simulation_results[n].date) = 1
          /\ MonthOf(simulation_results[k].date) = 2
          /\ CumulativeRealizedPnl(trade_history, 1, simulation_results[n].date) # 0
          /\ CumulativeRealizedPnl(trade_history, 1, simulation_results[k].date)
                # CumulativeRealizedPnl(trade_history, 1, simulation_results[n].date)
    /\ PrevRealizedPnl(trade_history, simulation_results, LastSnapshot.date) # 0


\* the ledger records of a ticker dated D or before, in ledger order
LedgerOf(stock_code, d) ==
    LET Mine(trade) == trade.stock_code = stock_code /\ trade.date <= d
    IN  SelectSeq(trade_history, Mine)

\* cost * (1 - s/t), as cost minus the share s/t of it
Reduced(cost, s, t) == Minus(cost, Fraction(cost.num * s, cost.den * t))

\* (total_shares, total_cost) of a ticker after the first k of its records:
\* a BUY adds shares and price * shares (times its rate for a USD ticker), a
\* SELL of s out of t > 0 held takes s shares and the share s/t of the cost
RECURSIVE Replayed(_, _)
Replayed(records, k) ==
    IF k = 0 THEN [total_shares |-> 0, total_cost |-> Whole(0)]
    ELSE LET before == Replayed(records, k - 1)
             trade == records[k]
         IN  IF trade.action = BUY
             THEN [total_shares |-> before.total_shares + trade.shares,
                   total_cost |-> Plus(before.total_cost,
                        Whole(trade.price * trade.shares * Scale
                                * (IF trade.stock_code \in UsdTickers
                                   THEN trade.exchange_rate ELSE 1)))]
             ELSE IF before.total_shares > 0
             THEN [total_shares |-> before.total_shares - trade.shares,
                   total_cost |-> Reduced(before.total_cost, trade.shares,
                                          before.total_shares)]
             ELSE before

HeldOn(stock_code, d) ==
    LET records == LedgerOf(stock_code, d) IN Replayed(records, Len(records))

\* the tickers that count on D: shares held and a price known
Counted(d) ==
    {t \in Tickers : HeldOn(t, d).total_shares > 0 /\ MemoizedPrice(t, d) # None}

RECURSIVE MarkedToMarket(_, _, _)
MarkedToMarket(codes, d, rate) ==
    IF codes = {} THEN Whole(0)
    ELSE LET t == CHOOSE c \in codes : TRUE
             held == HeldOn(t, d)
         IN  Plus(Minus(Whole(MemoizedPrice(t, d) * held.total_shares * Scale
                                * (IF t \in UsdTickers THEN rate ELSE 1)),
                        held.total_cost),
                  MarkedToMarket(codes \ {t}, d, rate))

\* C28: the unrealized P&L as of a snapshot date D is the replay of the ledger
\* records dated D or before into (total_shares, total_cost) per ticker, a BUY
\* adding shares and price * shares (times its exchange rate if USD), a SELL of
\* s shares out of t > 0 held taking s shares and multiplying total_cost by
\* (1 - s/t), summed over the tickers with shares left and a known price on D
\* as price * total_shares (times D's rate if USD) minus total_cost.
C28_UnrealizedPnl ==
    pc = "done" =>
        \A n \in DOMAIN simulation_results :
            CumulativeUnrealizedPnl(trade_history, simulation_results[n])
                = MarkedToMarket(Counted(simulation_results[n].date),
                                 simulation_results[n].date,
                                 simulation_results[n].exchange_rate)

\* the sale i takes a part of the shares held
PartialSale(i) ==
    /\ trade_history[i].action = SELL
    /\ trade_history[i].shares > 0
    /\ trade_history[i].shares
          < Replayed(SubSeq(LedgerOf(trade_history[i].stock_code, trade_history[i].date), 1,
                       Len(LedgerOf(trade_history[i].stock_code, trade_history[i].date)) - 1),
                Len(LedgerOf(trade_history[i].stock_code, trade_history[i].date)) - 1).total_shares

\* a returned run with a snapshot on which a position cut by a partial sale is
\* marked to market, and one on which a USD position stands at a gain or a loss
C28_Witness ==
    /\ pc = "done"
    /\ \E n \in DOMAIN simulation_results, i \in DOMAIN trade_history :
          /\ PartialSale(i)
          /\ trade_history[i].date <= simulation_results[n].date
          /\ trade_history[i].stock_code \in Counted(simulation_results[n].date)
    /\ \E n \in DOMAIN simulation_results, u \in UsdTickers :
          /\ u \in Counted(simulation_results[n].date)
          /\ MarkedToMarket({u}, simulation_results[n].date,
                            simulation_results[n].exchange_rate).num # 0


-----------------------------------------------------------------------------
(* C29: the trading cost of a snapshot *)

\* 0.0017 * (shares * price) of a ledger record, as money (17 units of
\* 1/10000 for each unit of value), in JPY at the rate of the day for a USD
\* record
CostOfRecord(trade, rate) ==
    (trade.shares * trade.price * 17 * (Scale \div 10000))
        * (IF trade.currency = "USD" THEN rate ELSE 1)

RECURSIVE CostOfDay(_, _, _)
CostOfDay(i, d, rate) ==
    IF i > Len(trade_history) THEN 0
    ELSE (IF trade_history[i].date = d THEN CostOfRecord(trade_history[i], rate) ELSE 0)
            + CostOfDay(i + 1, d, rate)

TradedOn(d) == {i \in DOMAIN trade_history : trade_history[i].date = d}

\* C29: the trading_cost of every snapshot is the sum, over the ledger records
\* dated that day, of 0.0017 * (shares * price), a USD record's cost times the
\* day's FX rate; it is 0 on a day without a record, and BUY and SELL records
\* pay the same rate.
C29_TradingCost ==
    \A n \in DOMAIN simulation_results :
        simulation_results[n].trading_cost
            = CostOfDay(1, simulation_results[n].date, simulation_results[n].exchange_rate)

\* a snapshot of a day with a BUY and a SELL, one of the records in USD, and a
\* snapshot of a day without a record
C29_Witness ==
    /\ \E n \in DOMAIN simulation_results :
          /\ simulation_results[n].trading_cost > 0
          /\ \E i, j, k \in TradedOn(simulation_results[n].date) :
                /\ trade_history[i].action = BUY /\ trade_history[i].shares > 0
                /\ trade_history[j].action = SELL /\ trade_history[j].shares > 0
                /\ trade_history[k].currency = "USD" /\ trade_history[k].shares > 0
    /\ \E n \in DOMAIN simulation_results :
          /\ TradedOn(simulation_results[n].date) = {}
          /\ simulation_results[n].trading_cost = 0


-----------------------------------------------------------------------------
(* C30: the currency bucket of a ticker *)

Digit(char) == char \in {"0", "1", "2", "3", "4", "5", "6", "7", "8", "9"}

BeginsWithDigit(t) == Digit(Chars(t)[1])

AllDigits(t) == \A i \in DOMAIN Chars(t) : Digit(Chars(t)[i])

\* the value of the positions of a snapshot at the prices looked up on its
\* date, each share counted at its price, times rate
RECURSIVE ValuedAt(_, _, _)
ValuedAt(portfolio, d, rate) ==
    IF portfolio = <<>> THEN 0
    ELSE LET price == MemoizedPrice(Head(portfolio)[1], d)
         IN  (IF price = None THEN 0 ELSE Head(portfolio)[2] * price * Scale * rate)
                + ValuedAt(Tail(portfolio), d, rate)

\* every ticker is ranked, held and valued in the JPY bucket if InJpyBucket
\* holds of it and in the USD bucket if not, and no ticker is held in both
BucketedBy(InJpyBucket(_)) ==
    /\ \A d \in VoteDates :
          /\ \A t \in Range(votes[d].jpy_stocks) : InJpyBucket(t)
          /\ \A t \in Range(votes[d].usd_stocks) : ~InJpyBucket(t)
    /\ \A t \in Keys(jpy_portfolio) : InJpyBucket(t)
    /\ \A t \in Keys(usd_portfolio) : ~InJpyBucket(t)
    /\ Keys(jpy_portfolio) \cap Keys(usd_portfolio) = {}
    /\ \A n \in DOMAIN simulation_results :
          LET result == simulation_results[n] IN
          /\ \A t \in Keys(result.jpy_portfolio) : InJpyBucket(t)
          /\ \A t \in Keys(result.usd_portfolio) : ~InJpyBucket(t)
          /\ result.jpy_portfolio_value = ValuedAt(result.jpy_portfolio, result.date, 1)
          /\ result.usd_portfolio_value
                = ValuedAt(result.usd_portfolio, result.date, result.exchange_rate)

\* C30 as amended: every ticker belongs to exactly one currency bucket, decided
\* by the first character of its code alone: it is ranked, held and valued in
\* the JPY bucket iff its code begins with a digit, otherwise in the USD
\* bucket, and no ticker is ever held in both position maps.
C30_BucketByFirstCharacter == BucketedBy(BeginsWithDigit)

\* C30 as stated: every ticker belongs to exactly one currency bucket, decided
\* by whether its code is all digits: it is ranked, held and valued in the JPY
\* bucket iff every character of its code is a digit, otherwise in the USD
\* bucket, and no ticker is ever held in both position maps.
C30_BucketByAllDigits == BucketedBy(AllDigits)

\* the code 130A is held in the JPY position map and counted in its value,
\* while a USD ticker is held in the other
C30_Witness ==
    /\ simulation_results # <<>>
    /\ \E i \in DOMAIN LastSnapshot.jpy_portfolio :
          /\ LastSnapshot.jpy_portfolio[i][1] = "130A"
          /\ LastSnapshot.jpy_portfolio[i][2] > 0
    /\ LastSnapshot.jpy_portfolio_value > 0
    /\ \E i \in DOMAIN LastSnapshot.usd_portfolio : LastSnapshot.usd_portfolio[i][2] > 0
    /\ LastSnapshot.usd_portfolio_value > 0


-----------------------------------------------------------------------------
(* C31: days without a rebalance *)

\* this step appends the snapshot of a weekday that is no rebalance day: the
\* trading day before it was no vote weekday, or its tally ranked no ticker
ValuesWithoutRebalance ==
    /\ Len(simulation_results') = Len(simulation_results) + 1
    /\ ~(/\ Weekday(Yesterday(current_date)) \in VoteWeekdays
         /\ Yesterday(current_date) \in VoteDates
         /\ votes[Yesterday(current_date)] # NoVotes)

\* C31: cash and positions are changed only by trade execution: on every
\* simulated weekday that is not a rebalance day, both cash balances, both
\* position maps and the ledger end the day as the previous simulated day left
\* them, and the snapshot of the day records them so.
C31_OnlyTradesMoveCashAndPositions ==
    [][ValuesWithoutRebalance =>
            /\ jpy_cash' = jpy_cash
            /\ usd_cash' = usd_cash
            /\ jpy_portfolio' = jpy_portfolio
            /\ usd_portfolio' = usd_portfolio
            /\ trade_history' = trade_history
            /\ LET snapshot == simulation_results'[Len(simulation_results')]
               IN  /\ snapshot.jpy_cash = jpy_cash
                   /\ snapshot.usd_cash = usd_cash
                   /\ snapshot.jpy_portfolio = jpy_portfolio
                   /\ snapshot.usd_portfolio = usd_portfolio
                   /\ simulation_results # <<>> =>
                        /\ snapshot.jpy_cash = LastSnapshot.jpy_cash
                        /\ snapshot.usd_cash = LastSnapshot.usd_cash
                        /\ snapshot.jpy_portfolio = LastSnapshot.jpy_portfolio
                        /\ snapshot.usd_portfolio = LastSnapshot.usd_portfolio]_vars

\* positions are held through a day after a vote weekday whose tally was
\* empty; the day's snapshot shows another total and the same positions
C31_Witness ==
    /\ Len(simulation_results) >= 2
    /\ day.kind = "hold"
    /\ IsTradeDay(LastSnapshot.date)
    /\ LastSnapshot.jpy_portfolio # <<>>
    /\ LastSnapshot.usd_portfolio # <<>>
    /\ LastSnapshot.total_value # simulation_results[Len(simulation_results) - 1].total_value
    /\ LastSnapshot.jpy_portfolio = simulation_results[Len(simulation_results) - 1].jpy_portfolio
    /\ LastSnapshot.jpy_cash = simulation_results[Len(simulation_results) - 1].jpy_cash


-----------------------------------------------------------------------------
(* C32: the total the USD bucket compares with the ceiling *)

\* the JPY-equivalent grand total at the point the USD bucket is sized: the
\* JPY positions as the JPY bucket left them at today's prices, the JPY cash,
\* and the given USD positions value and USD cash at today's rate
GrandTotal(usd_portfolio_value, cash) ==
    calculate_portfolio_value(day.locals.jpy.portfolio, day.prices, None)
        + day.locals.jpy.cash
        + usd_portfolio_value * day.exchange_rate
        + cash * day.exchange_rate

\* C32: when the USD bucket is sized, the total compared with 50 times the
\* initial capital is the grand total of the portfolio at that point: the JPY
\* positions after the JPY bucket's trades at today's prices, the JPY cash,
\* the USD positions after the exit pass times the rate, and the USD cash
\* times the rate.
C32_ComparedTotalIsGrandTotal ==
    (Rebalanced /\ ~day.locals.usd.first_trade) =>
        /\ day.locals.usd.temp_total_value
              = GrandTotal(day.locals.usd.temp_portfolio_value,
                           day.locals.usd.cash_after_exit)
        /\ day.locals.usd.final_total_value
              = GrandTotal(day.locals.usd.temp_portfolio_value
                              - TrimmedValue(day.locals.usd.bucket,
                                             day.locals.usd.temp_target,
                                             day.locals.usd.temp_portfolio),
                           day.locals.usd.cash_after_sells)


-----------------------------------------------------------------------------
(* C33: FX rates outside the sane bounds *)

\* "exchange_rate <= 0 or exchange_rate > 1000"
OutOfBounds(rate) == rate = None \/ rate <= 0 \/ rate > MaxValidRate

RECURSIVE JpyCostOfDay(_, _)
JpyCostOfDay(i, d) ==
    IF i > Len(trade_history) THEN 0
    ELSE (IF trade_history[i].date = d /\ trade_history[i].currency = "JPY"
          THEN CostOfRecord(trade_history[i], 1) ELSE 0)
            + JpyCostOfDay(i + 1, d)

\* C33: an FX rate that is <= 0 or > 1000 is discarded and never contributes
\* to a valuation: the total_value, usd_portfolio_value and trading_cost of a
\* snapshot hold no amount converted with such a rate.
C33_NoAmountAtStrayRate ==
    \A n \in DOMAIN simulation_results :
        LET snapshot == simulation_results[n]
        IN  OutOfBounds(snapshot.exchange_rate) =>
                /\ snapshot.usd_portfolio_value = 0
                /\ snapshot.total_value = snapshot.jpy_portfolio_value + snapshot.jpy_cash
                /\ snapshot.trading_cost = JpyCostOfDay(1, snapshot.date)


-----------------------------------------------------------------------------
(* C34: the maximum drawdown *)

\* the maximum of the first i values of the series
RunningPeak(values, i) ==
    CHOOSE peak \in {values[j] : j \in 1..i} : \A j \in 1..i : values[j] <= peak

\* calculate_risk_metrics has been called with at least two values, all of
\* them positive
MeasuredSeries ==
    /\ call.fn = "calculate_risk_metrics"
    /\ Len(call.values) >= 2
    /\ \A i \in DOMAIN call.values : call.values[i] > 0

\* C34: for a series of at least two positive total values the function
\* returns max_drawdown = 100 * the greatest (running peak - value) / running
\* peak over the series, the running peak being the greatest value so far;
\* the result is within [0, 100] and is 0 for a non-decreasing series.
C34_MaxDrawdown ==
    MeasuredSeries =>
        /\ DOMAIN call.result = {"fn", "max_drawdown", "total_trades"}
        /\ LET values == call.values
               m == call.result.max_drawdown
           IN  /\ \E i \in DOMAIN values :
                     m.num * RunningPeak(values, i)
                        = 100 * (RunningPeak(values, i) - values[i]) * m.den
               /\ \A i \in DOMAIN values :
                     m.num * RunningPeak(values, i)
                        >= 100 * (RunningPeak(values, i) - values[i]) * m.den
               /\ m.den > 0 /\ m.num >= 0 /\ m.num <= 100 * m.den
               /\ (\A i \in 1..(Len(values) - 1) : values[i] <= values[i + 1]) => m.num = 0

\* a series that falls, rises to a new peak and falls by a greater part of
\* it, then recovers: the drawdown is 75, from the second peak
C34_Witness ==
    /\ MeasuredSeries
    /\ call.values = <<2, 1, 4, 1>>
    /\ call.result.max_drawdown = Whole(75)


-----------------------------------------------------------------------------
(* C35: the ledger and the positions *)

\* the shares of the BUY records less the shares of the SELL records of a
\* ticker dated d or before, from the i-th record on
RECURSIVE NetShares(_, _, _)
NetShares(stock_code, d, i) ==
    IF i > Len(trade_history) THEN 0
    ELSE (IF trade_history[i].stock_code = stock_code /\ trade_history[i].date <= d
          THEN IF trade_history[i].action = BUY THEN trade_history[i].shares
               ELSE 0 - trade_history[i].shares
          ELSE 0)
            + NetShares(stock_code, d, i + 1)

\* the share count of a ticker in the position maps of a snapshot, 0 if absent
SharesIn(snapshot, stock_code) ==
    Get(snapshot.jpy_portfolio, stock_code, 0) + Get(snapshot.usd_portfolio, stock_code, 0)

\* C35: at every snapshot and for every ticker, the shares of the BUY records
\* minus the shares of the SELL records dated on or before the snapshot date
\* equal the share count of the ticker in the snapshot's position map (0 if
\* absent), and the holdings that the P&L replay rebuilds for that date have
\* that share count.
C35_LedgerAgreesWithPositions ==
    \A n \in DOMAIN simulation_results :
        LET snapshot == simulation_results[n]
            holdings == RebuildHoldings(trade_history, 1, snapshot.date,
                                        [t \in Tickers |-> NotHeld])
        IN  \A t \in Tickers :
                /\ NetShares(t, snapshot.date, 1) = SharesIn(snapshot, t)
                /\ (IF holdings[t] = NotHeld THEN 0 ELSE holdings[t].total_shares)
                      = SharesIn(snapshot, t)


\* by the date of a snapshot a ticker with a sale on record is still held,
\* another has been sold whole, and a ticker is held in USD
C35_Witness ==
    \E n \in DOMAIN simulation_results :
        LET snapshot == simulation_results[n]
            Records(t, action) ==
                {i \in DOMAIN trade_history :
                    /\ trade_history[i].stock_code = t
                    /\ trade_history[i].action = action
                    /\ trade_history[i].shares > 0
                    /\ trade_history[i].date <= snapshot.date}
        IN  /\ \E t \in Tickers :
                  /\ Records(t, SELL) # {}
                  /\ SharesIn(snapshot, t) > 0
                  /\ NetShares(t, snapshot.date, 1) = SharesIn(snapshot, t)
            /\ \E t \in Tickers :
                  /\ Records(t, SELL) # {}
                  /\ SharesIn(snapshot, t) = 0
            /\ \E t \in UsdTickers : SharesIn(snapshot, t) > 0


-----------------------------------------------------------------------------
(* C36: zero-share entries *)

\* C36: no position map ever holds a ticker with zero shares: after every
\* rebalance each key of jpy_portfolio and usd_portfolio has a share count of
\* at least 1, in the maps of the run and in those of every snapshot.
C36_NoZeroShareEntry ==
    /\ \A i \in DOMAIN jpy_portfolio : jpy_portfolio[i][2] >= 1
    /\ \A i \in DOMAIN usd_portfolio : usd_portfolio[i][2] >= 1
    /\ \A n \in DOMAIN simulation_results :
          /\ \A i \in DOMAIN simulation_results[n].jpy_portfolio :
                simulation_results[n].jpy_portfolio[i][2] >= 1
          /\ \A i \in DOMAIN simulation_results[n].usd_portfolio :
                simulation_results[n].usd_portfolio[i][2] >= 1


-----------------------------------------------------------------------------
(* C37: holdings and targets after a rebalance *)

\* C37: after every rebalance, for each bucket and each ticker whose price
\* was known on that day, the shares held are at most the final target of the
\* ticker, 0 if it has none: trims bring a holding down to its target, a full
\* purchase reaches it and a partial purchase stays below it.
C37_HeldWithinTarget ==
    Rebalanced =>
        \A r \in Buckets :
            \A t \in Tickers :
                r.prices[t] # None =>
                    /\ Get(r.portfolio, t, 0) <= Get(r.target, t, 0)
                    /\ Get(PortfolioNow(r), t, 0) = Get(r.portfolio, t, 0)


\* a rebalance has trimmed a holding down to a target of at least one share,
\* and a purchase for want of cash has stopped below its target
C37_Witness ==
    /\ Rebalanced
    /\ \E r \in Buckets, t \in Tickers :
          /\ r.prices[t] # None
          /\ Get(r.bucket.portfolio, t, 0) > Get(r.target, t, 0)
          /\ Get(r.target, t, 0) >= 1
          /\ Get(r.portfolio, t, 0) = Get(r.target, t, 0)
    /\ \E r \in Buckets, t \in Tickers :
          /\ r.prices[t] # None
          /\ Get(r.portfolio, t, 0) > Get(r.bucket.portfolio, t, 0)
          /\ Get(r.portfolio, t, 0) < Get(r.target, t, 0)


-----------------------------------------------------------------------------
(* C38: a rebalance missed for want of an FX rate *)

\* the loop has passed the weekday d of the run without a snapshot: its FX
\* rate was not resolved
MissedForFx(d) ==
    /\ pc \in {"loop", "done"}
    /\ d > cfg.start_date /\ d < current_date /\ d <= cfg.end_date
    /\ ~IsWeekend(d)
    /\ \A n \in DOMAIN simulation_results : simulation_results[n].date # d

\* the snapshots dated after d up to which the ledger has no record dated
\* after d
BeforeNextTrade(d) ==
    {n \in DOMAIN simulation_results :
        /\ simulation_results[n].date > d
        /\ \A i \in DOMAIN trade_history :
              ~(trade_history[i].date > d
                    /\ trade_history[i].date <= simulation_results[n].date)}

\* the last snapshot dated before d
LastBefore(d) ==
    simulation_results[CHOOSE n \in DOMAIN simulation_results :
        /\ simulation_results[n].date < d
        /\ \A m \in DOMAIN simulation_results :
              simulation_results[m].date < d => m <= n]

\* C38: a rebalance missed because of an unresolved FX rate is never retried:
\* when the FX rate of the weekday following a vote day is not resolved, no
\* trade record ever carries that vote date, and the positions and the cash
\* stay as they were until the next rebalance.
C38_MissedRebalanceNotRetried ==
    \A v \in VoteDates :
        MissedForFx(FirstWeekdayAfter(v)) =>
            /\ \A i \in DOMAIN trade_history : trade_history[i].vote_date # v
            /\ \A n \in BeforeNextTrade(FirstWeekdayAfter(v)) :
                  /\ simulation_results[n].jpy_portfolio
                        = LastBefore(FirstWeekdayAfter(v)).jpy_portfolio
                  /\ simulation_results[n].usd_portfolio
                        = LastBefore(FirstWeekdayAfter(v)).usd_portfolio
                  /\ simulation_results[n].jpy_cash
                        = LastBefore(FirstWeekdayAfter(v)).jpy_cash
                  /\ simulation_results[n].usd_cash
                        = LastBefore(FirstWeekdayAfter(v)).usd_cash

\* the Wednesday after a Tuesday vote that ranked a ticker went by without an
\* FX rate while positions were held; the days after it were valued with the
\* positions of the day before it, and the next Tuesday's vote was traded
C38_Witness ==
    \E v \in VoteDates :
        /\ Weekday(v) = 1
        /\ Ranked(v)
        /\ MissedForFx(v + 1)
        /\ \E n \in BeforeNextTrade(v + 1) :
              /\ simulation_results[n].jpy_portfolio # <<>>
              /\ simulation_results[n].jpy_portfolio = LastBefore(v + 1).jpy_portfolio
              /\ LastBefore(v + 1).date = v
        /\ \E i \in DOMAIN trade_history : trade_history[i].vote_date > v


-----------------------------------------------------------------------------
(* C39: sales and the purchases before them *)

\* C39: no ticker is both bought and sold on one trade date, and every SELL
\* record comes after a BUY record of its ticker with a strictly earlier date
\* in the ledger; so the scan of the realized P&L finds a BUY for every SELL.
C39_SaleAfterPurchase ==
    \A i \in DOMAIN trade_history :
        trade_history[i].action = SELL =>
            /\ \A k \in DOMAIN trade_history :
                  ~(/\ trade_history[k].action = BUY
                    /\ trade_history[k].stock_code = trade_history[i].stock_code
                    /\ trade_history[k].date = trade_history[i].date)
            /\ \E j \in 1..(i - 1) :
                  /\ trade_history[j].action = BUY
                  /\ trade_history[j].stock_code = trade_history[i].stock_code
                  /\ trade_history[j].date < trade_history[i].date
            /\ FindBuy(trade_history, 1, trade_history[i], NoTrade) # NoTrade

\* a ticker has been bought, sold whole on a later rebalance and bought again
\* on the one after it, and a holding has been sold in part
C39_Witness ==
    /\ \E i, j, k \in DOMAIN trade_history :
          /\ i < j /\ j < k
          /\ trade_history[i].action = BUY
          /\ trade_history[j].action = SELL
          /\ trade_history[k].action = BUY
          /\ trade_history[i].stock_code = trade_history[j].stock_code
          /\ trade_history[k].stock_code = trade_history[j].stock_code
          /\ trade_history[j].shares = trade_history[i].shares
          /\ trade_history[k].date > trade_history[j].date
    /\ \E i, j \in DOMAIN trade_history :
          /\ i < j
          /\ trade_history[i].action = BUY
          /\ trade_history[j].action = SELL
          /\ trade_history[i].stock_code = trade_history[j].stock_code
          /\ trade_history[j].shares > 0
          /\ trade_history[j].shares < trade_history[i].shares


-----------------------------------------------------------------------------
(* C40: termination *)

\* this step is one iteration of "while current_date <= end_date"
LoopIteration == pc = "loop" /\ pc' = "loop"

\* C40: simulate_investment terminates for every start_date <= end_date: every
\* loop iteration, be it a weekend, a day without an FX rate, a day without a
\* rebalance or a rebalance day, advances current_date by exactly one day, so
\* that each calendar day of the range is visited once, and the snapshots are
\* at most as many as the weekdays of the range.
C40_Terminates ==
    /\ [][LoopIteration =>
            /\ current_date >= cfg.start_date /\ current_date <= cfg.end_date
            /\ day'.date = current_date
            /\ current_date' = current_date + 1]_vars
    /\ [](Len(simulation_results) <= Cardinality(WeekdaysDone))
    /\ [](pc = "done" =>
            /\ simulation_results # <<>> => current_date = cfg.end_date + 1
            /\ Cardinality(WeekdaysDone)
                  <= Cardinality({d \in cfg.start_date..cfg.end_date : ~IsWeekend(d)}))
    /\ <>(pc = "done")

\* a run has returned after a weekend, a day without an FX rate, days without
\* a rebalance and a rebalance day
C40_Witness ==
    /\ pc = "done"
    /\ current_date = cfg.end_date + 1
    /\ fx_misses >= 1
    /\ trade_history # <<>>
    /\ Len(simulation_results) >= 2
    /\ Len(simulation_results) < Cardinality(WeekdaysDone)
    /\ \E d \in cfg.start_date..cfg.end_date : IsWeekend(d)

====
